---- MODULE Spec2Model ----
(***************************************************************************)
(* Model of quicksync-rs: the resumable range download with retries       *)
(* (src/src/download.rs), the restore planner find_restore_points and the *)
(* restore loop partial_restore (src/src/partial_quicksync.rs), and the   *)
(* Download command of main (src/src/main.rs with checksum.rs, unpack.rs  *)
(* and utils.rs).                                                          *)
(*                                                                         *)
(* The module holds several specifications: SpecDownload runs one call of *)
(* download_with_retries, SpecPlan applies find_restore_points to inputs  *)
(* drawn from bounded sets, SpecRestore runs one call of partial_restore, *)
(* SpecReentry runs partial_restore again after a kill or an error,       *)
(* SpecLayerFrom computes layer_from on u32 values, SpecCommand runs the  *)
(* Download command once, SpecChecksum runs verify_archive on digest       *)
(* answers drawn from bounded sets, SpecPublish runs partial_restore while *)
(* the server replaces what it publishes, and SpecMain runs either command *)
(* of main. Each keeps the variables of the parts it does not run at their *)
(* idle values.                                                            *)
(***************************************************************************)
EXTENDS Integers, Sequences, FiniteSets, TLC

VARIABLES
  \* ---- download.rs: one call of download_with_retries ----
  dlPc,        \* position: "loop", "request", "persist", "stream", "result", "returned"
  fileLen,     \* N, the length of the remote file
  sink,        \* the bytes of the caller's Write + Seek sink
  pin,         \* content of the redirect pin file, NoPin when it does not exist
  maxRetries,  \* the max_retries argument
  attempts,    \* the local counter of download_with_retries
  offset,      \* download_file: the offset the seek returned
  reqUrl,      \* download_file: the URL the request is sent to
  finalUrl,    \* download_file: response.url(), the post-redirect URL
  body,        \* download_file: what is left to read of the response body
  status,      \* download_file: the status of the response, 0 before it arrived
  attemptRes,  \* result of the current attempt once it ended, NoRes before
  ret,         \* what download_with_retries returned, NoRes before
  log,         \* history: one record per attempt, the last one the current attempt's
  \* ---- partial_quicksync.rs: one call of find_restore_points ----
  plPc,        \* "call" before the call, "done" after it
  plPoints,    \* the restore points the manifest text was rendered from
  plLayerFrom, \* the layer_from argument
  plMetadata,  \* the metadata argument: the manifest text, a sequence of characters
  plJumpBack,  \* the jump_back argument
  plResult,    \* what the call returned, or that it panicked
  \* ---- partial_quicksync.rs: one call of partial_restore ----
  prPc,        \* position in partial_restore
  prManifest,  \* the restore points the server publishes
  pubScript,   \* the restore.sql the server publishes, by its revision
  prUntrusted, \* the untrusted_layers argument
  prJumpBack,  \* the jump_back argument
  db,          \* the layers table of the target database: layer id -> row
  connOpen,    \* how many connections to the target database the run holds open
  metaText,    \* remote_metadata, the fetched manifest text
  plan,        \* start_points
  haveScript,  \* whether restore_string was fetched
  restoreString, \* restore_string: the revision of restore.sql the run holds
  idx,         \* the loop's current_idx: position in plan of the current step
  zstFile,     \* scratch file backup_source.db.zst
  srcFile,     \* scratch file backup_source.db
  prRet,       \* what partial_restore returned, NoRes before
  failedAt,    \* history: the step an error or panic ended, 0 when none did
  dbCommitted, \* history: the table after the last step whose script ran
  events,      \* history: what the run did, in order
  db0,         \* history: the table when partial_restore was first invoked
  runs,        \* history: how many times partial_restore was invoked
  \* ---- partial_quicksync.rs line 167: layer_from on 32-bit unsigned values ----
  lfPc,        \* "call" before the computation, "done" after it
  lfLatest,    \* latest_layer, a u32 as two 16-bit limbs <<high, low>>
  lfUntrusted, \* untrusted_layers, a u32 as two 16-bit limbs
  lfChecked,   \* whether the build checks arithmetic overflow (debug) or wraps
  lfResult,    \* layer_from as computed, or that the computation panicked
  \* ---- main.rs: one run of the Download command ----
  cmdPc,         \* position: "download", "verify_archive", "unpack", "verify_db",
                 \* "backup", "install", "cleanup", "exited"
  archiveFile,   \* state.zst
  redirectFile,  \* state.url, the pin file: the URL it holds
  tempFile,      \* state.download
  unpackedFile,  \* state_downloaded.sql
  finalFile,     \* state.sql
  walFile,       \* state.sql-wal
  backups,       \* state.sql.bak, state.sql.bak.1, state.sql.bak.2, ...
  pubArchiveMd5, \* what the server answers for the digest of the archive
  pubDbMd5,      \* what the server answers for the digest of the database
  exitCode,      \* the exit code of the process once it exited
  steps,         \* history: the steps the run performed, with their outcome
  cmdStart       \* history: the files as the run found them

cmdVars == <<cmdPc, archiveFile, redirectFile, tempFile, unpackedFile, finalFile,
             walFile, backups, pubArchiveMd5, pubDbMd5, exitCode, steps,
             cmdStart>>

lfVars == <<lfPc, lfLatest, lfUntrusted, lfChecked, lfResult>>

dlVars == <<dlPc, fileLen, sink, pin, maxRetries, attempts, offset, reqUrl,
            finalUrl, body, status, attemptRes, ret, log>>

plVars == <<plPc, plPoints, plLayerFrom, plMetadata, plJumpBack, plResult>>

prVars == <<prPc, prManifest, pubScript, prUntrusted, prJumpBack, db, connOpen,
            metaText, plan, haveScript, restoreString, idx, zstFile, srcFile, prRet, failedAt,
            dbCommitted, events, db0, runs>>

----------------------------------------------------------------------------
\* Bounds of the download model.
MaxFileLen == 3
MaxChunk == 2
MaxRetriesBound == 2

\* StatusCode::PARTIAL_CONTENT
PARTIAL_CONTENT == 206

NoPin == "<no file>"
NoRes == [kind |-> "none"]
OkRes == [kind |-> "ok"]
ErrRes(m) == [kind |-> "err", msg |-> m]

OrigUrl == "http://origin/file"
RedirUrl == "http://mirror/redirected"
\* What fs::write can leave in the pin file when it fails after File::create.
TruncatedPin == ""

\* The remote file: N bytes, all different, so that a duplicated or a missing
\* byte shows in the sink.
Remote(n) == [i \in 1..n |-> i]

IsPrefix(s, t) == Len(s) <= Len(t) /\ \A i \in 1..Len(s) : s[i] = t[i]

\* StatusCode::RANGE_NOT_SATISFIABLE, the answer to a range that starts at or
\* after the end of the file.
RANGE_NOT_SATISFIABLE == 416

\* The statuses the server may answer with.
StatusCodes == {200, 206, 404, RANGE_NOT_SATISFIABLE, 500}

\* Bodies of an error response: a JSON object with a msg field, a JSON object
\* without one, and text that is not JSON.
ErrorBodies ==
  { [json |-> TRUE,  obj |-> [msg |-> "quota exceeded"]],
    [json |-> TRUE,  obj |-> [error |-> "quota exceeded"]],
    [json |-> FALSE, obj |-> [text |-> "<html></html>"]] }

\* read_error_response: the msg field of a body that parses as ErrorResponse,
\* else "Unknown error".
ReadErrorResponse(text) ==
  IF text.json /\ "msg" \in DOMAIN text.obj THEN text.obj.msg ELSE "Unknown error"

\* StatusCode::is_success
IsSuccess(code) == code >= 200 /\ code <= 299

\* download_file line 14: file.seek(SeekFrom::End(0)) returns the sink's length.
ResumeOffsetFromStart(s) == 0
ResumeOffset(s) == Len(s)

\* download_file lines 16-20: the pin file's content when it exists, else the
\* caller's url.
RequestUrlIgnoringPin(p, url) == url
RequestUrl(p, url) == IF p # NoPin THEN p ELSE url

\* download_file lines 31-41: the match on the status. "ok" lets the attempt
\* go on; the other two bail.
StatusMatchAnySuccess(code) ==
  IF IsSuccess(code) THEN "ok" ELSE "failed"
StatusMatch(code) ==
  IF code = PARTIAL_CONTENT THEN "ok"
  ELSE IF IsSuccess(code) THEN "expected"
  ELSE "failed"

\* The messages of the two bails, as the sequence of their formatted parts.
ExpectedMsg(code) ==
  <<"expected ", ToString(PARTIAL_CONTENT), ", but got ", ToString(code)>>
FailedMsg(url, code, err) ==
  <<"failed to download from ", url, ": ", ToString(code), " ", err>>

\* download_file line 44: fs::write(redirect_path, final_url) replaces the pin
\* file's content.
PersistRedirectSkipped(p, final) == p
PersistRedirect(p, final) == final

\* download_with_retries line 127: the pattern of the retrying arm, Err(e),
\* matches every error.
ErrExceptProtocol(res) == res.kind = "err" /\ res.msg[1] # "expected "
ErrPattern(res) == res.kind = "err"

\* download_with_retries line 127: the guard of the retrying arm.
ShouldRetryOnceMore(att, maxr) == att <= maxr + 1
ShouldRetry(att, maxr) == att <= maxr

\* Where a request to url ends after the client followed the redirects: the
\* origin may serve the file itself or redirect to the mirror.
FinalUrls(url) == IF url = OrigUrl THEN {OrigUrl, RedirUrl} ELSE {url}

\* What the server sends as the body: to `Range: bytes=<off>-` answered with
\* 206 the remote bytes from off on; with 200 (the Range header ignored) the
\* whole file; nothing with the other statuses that carry no content.
ServerBody(code, off, n) ==
  IF code = 206 THEN SubSeq(Remote(n), off + 1, n)
  ELSE IF code = 200 THEN Remote(n)
  ELSE <<>>

\* The history record of an attempt as it starts.
NewAttempt ==
  [sinkBefore |-> sink, pinBefore |-> pin, built |-> FALSE, url |-> "",
   range |-> 0, got206 |-> FALSE, final |-> "", pinned |-> FALSE, res |-> ""]

\* The history with the current attempt's record changed in field f.
Logged(l, f, v) == [l EXCEPT ![Len(l)] = [@ EXCEPT ![f] = v]]

InitDl ==
  /\ dlPc = "loop"
  /\ fileLen \in 0..MaxFileLen
  /\ \E k \in 0..MaxFileLen : k <= fileLen /\ sink = SubSeq(Remote(fileLen), 1, k)
  /\ pin \in {NoPin, OrigUrl, RedirUrl}
  /\ maxRetries \in 0..MaxRetriesBound
  /\ attempts = 0
  /\ offset = 0
  /\ reqUrl = ""
  /\ finalUrl = ""
  /\ body = <<>>
  /\ status = 0
  /\ attemptRes = NoRes
  /\ ret = NoRes
  /\ log = <<>>

\* download_with_retries lines 124-125 and download_file lines 14-20: count the
\* attempt, seek the sink to its end, pick the URL.
DlStartAttempt ==
  /\ dlPc = "loop"
  /\ attempts' = attempts + 1
  /\ status' = 0
  /\ \/ \* the seek fails
        /\ attemptRes' = ErrRes(<<"seek failed">>)
        /\ dlPc' = "result"
        /\ log' = Append(log, [NewAttempt EXCEPT !.res = "err"])
        /\ UNCHANGED <<offset, reqUrl>>
     \/ \* the pin file exists and reading it fails
        /\ pin # NoPin
        /\ offset' = ResumeOffset(sink)
        /\ attemptRes' = ErrRes(<<"reading the redirect file failed">>)
        /\ dlPc' = "result"
        /\ log' = Append(log, [NewAttempt EXCEPT !.res = "err"])
        /\ UNCHANGED reqUrl
     \/ /\ offset' = ResumeOffset(sink)
        /\ reqUrl' = RequestUrl(pin, OrigUrl)
        /\ log' = Append(log, [NewAttempt EXCEPT !.built = TRUE, !.url = reqUrl',
                                                 !.range = offset'])
        /\ dlPc' = "request"
        /\ attemptRes' = NoRes
  /\ UNCHANGED <<fileLen, sink, pin, maxRetries, finalUrl, body, ret>>
  /\ UNCHANGED <<plVars, prVars, lfVars, cmdVars>>

\* The attempt ends with the error message m: control returns to the match of
\* download_with_retries.
FailAttempt(l, m) ==
  /\ attemptRes' = ErrRes(m)
  /\ dlPc' = "result"
  /\ log' = Logged(l, "res", "err")

\* download_file lines 22-42: build the client, send the request with the Range
\* header, match on the status.
DlSendRequest ==
  /\ dlPc = "request"
  /\ \/ \* client build or send fails (a URL that does not parse included)
        /\ FailAttempt(log, <<"error sending request">>)
        /\ UNCHANGED <<finalUrl, body, status>>
     \/ /\ reqUrl # TruncatedPin
        /\ \E code \in StatusCodes, final \in FinalUrls(reqUrl) :
             /\ status' = code
             /\ \/ /\ StatusMatch(code) = "ok"
                   /\ finalUrl' = final
                   /\ body' = ServerBody(code, offset, fileLen)
                   /\ dlPc' = "persist"
                   /\ log' = Logged(Logged(log, "got206", code = PARTIAL_CONTENT),
                                    "final", final)
                   /\ UNCHANGED attemptRes
                \/ /\ StatusMatch(code) = "expected"
                   /\ FailAttempt(log, ExpectedMsg(code))
                   /\ UNCHANGED <<finalUrl, body>>
                \/ /\ StatusMatch(code) = "failed"
                   /\ UNCHANGED <<finalUrl, body>>
                   /\ \/ \E errBody \in ErrorBodies :
                           FailAttempt(log, FailedMsg(reqUrl, code,
                                                      ReadErrorResponse(errBody)))
                      \/ \* response.text() fails
                         FailAttempt(log, <<"error decoding response body">>)
  /\ UNCHANGED <<fileLen, sink, pin, maxRetries, attempts, offset, reqUrl, ret>>
  /\ UNCHANGED <<plVars, prVars, lfVars, cmdVars>>

\* download_file line 44: write the final URL to the pin file.
DlPersistRedirect ==
  /\ dlPc = "persist"
  /\ \/ /\ pin' = PersistRedirect(pin, finalUrl)
        /\ log' = Logged(log, "pinned", TRUE)
        /\ dlPc' = "stream"
        /\ UNCHANGED attemptRes
     \/ \* fs::write fails: the file was not created, or was truncated
        /\ pin' \in {pin, TruncatedPin}
        /\ FailAttempt(log, <<"writing the redirect file failed">>)
  /\ UNCHANGED <<fileLen, sink, maxRetries, attempts, offset, reqUrl, finalUrl,
                 body, status, ret>>
  /\ UNCHANGED <<plVars, prVars, lfVars, cmdVars>>

\* download_file lines 63-108: one turn of the read loop.
DlStreamChunk ==
  /\ dlPc = "stream"
  /\ \/ \* Ok(0): the body ended
        /\ body = <<>>
        /\ attemptRes' = OkRes
        /\ dlPc' = "result"
        /\ log' = Logged(log, "res", "ok")
        /\ UNCHANGED <<sink, body>>
     \/ \* read fails
        /\ FailAttempt(log, <<"error reading the body">>)
        /\ UNCHANGED <<sink, body>>
     \/ \* Ok(n) and write_all writes the n bytes
        /\ \E n \in 1..MaxChunk :
             /\ n <= Len(body)
             /\ sink' = sink \o SubSeq(body, 1, n)
             /\ body' = SubSeq(body, n + 1, Len(body))
        /\ UNCHANGED <<dlPc, attemptRes, log>>
     \/ \* Ok(n) and write_all fails after writing k < n of the bytes
        /\ \E n \in 1..MaxChunk, k \in 0..MaxChunk :
             /\ n <= Len(body)
             /\ k < n
             /\ sink' = sink \o SubSeq(body, 1, k)
             /\ body' = SubSeq(body, n + 1, Len(body))
        /\ FailAttempt(log, <<"failed writing">>)
  /\ UNCHANGED <<fileLen, pin, maxRetries, attempts, offset, reqUrl, finalUrl,
                 status, ret>>
  /\ UNCHANGED <<plVars, prVars, lfVars, cmdVars>>

\* download_with_retries lines 125-132: the match on the attempt's result.
DlHandleResult ==
  /\ dlPc = "result"
  /\ \/ /\ attemptRes.kind = "ok"
        /\ ret' = OkRes
        /\ dlPc' = "returned"
     \/ /\ ErrPattern(attemptRes)
        /\ ShouldRetry(attempts, maxRetries)
        /\ dlPc' = "loop"
        /\ UNCHANGED ret
     \/ /\ attemptRes.kind = "err"
        /\ ~(ErrPattern(attemptRes) /\ ShouldRetry(attempts, maxRetries))
        /\ ret' = attemptRes
        /\ dlPc' = "returned"
  /\ UNCHANGED <<fileLen, sink, pin, maxRetries, attempts, offset, reqUrl,
                 finalUrl, body, status, attemptRes, log>>
  /\ UNCHANGED <<plVars, prVars, lfVars, cmdVars>>

NextDl ==
  \/ DlStartAttempt
  \/ DlSendRequest
  \/ DlPersistRedirect
  \/ DlStreamChunk
  \/ DlHandleResult

----------------------------------------------------------------------------
\* partial_quicksync.rs: the manifest text and find_restore_points.

\* Bounds of the planner model: layers are 0..MaxLayer, a manifest has at most
\* MaxPoints points, jump_back is at most MaxJump.
MaxLayer == 4
MaxPoints == 3
MaxJump == 3

\* The decimal numeral of u32::MAX, 4294967295.
U32MaxDigits == <<"4", "2", "9", "4", "9", "6", "7", "2", "9", "5">>

\* Results: a parse gives Parsed(v) or ParseError, find_restore_points gives
\* Returned(points) or Panicked; an Option is None or Some(v).
Parsed(v) == [ok |-> TRUE, val |-> v]
ParseError == [ok |-> FALSE]
Returned(points) == [panic |-> FALSE, points |-> points]
Panicked == [panic |-> TRUE]
None == <<>>
Some(v) == <<v>>

Digits == <<"0", "1", "2", "3", "4", "5", "6", "7", "8", "9">>
DigitChars == { Digits[i] : i \in 1..10 }
DigitValue(c) == CHOOSE v \in 0..9 : Digits[v + 1] = c

\* What str::trim strips.
Whitespace == {" ", "\n"}

RECURSIVE TrimStart(_)
TrimStart(str) ==
  IF str # <<>> /\ Head(str) \in Whitespace THEN TrimStart(Tail(str)) ELSE str

RECURSIVE TrimEnd(_)
TrimEnd(str) ==
  IF str # <<>> /\ str[Len(str)] \in Whitespace
  THEN TrimEnd(SubSeq(str, 1, Len(str) - 1))
  ELSE str

\* str::trim
Trim(str) == TrimEnd(TrimStart(str))

\* The position of the first c in str, 0 when there is none.
RECURSIVE IndexFrom(_, _, _)
IndexFrom(str, c, i) ==
  IF i > Len(str) THEN 0
  ELSE IF str[i] = c THEN i
  ELSE IndexFrom(str, c, i + 1)

\* str::lines: the text split at its line feeds; a last empty line is dropped.
RECURSIVE Lines(_)
Lines(str) ==
  IF str = <<>> THEN <<>>
  ELSE LET nl == IndexFrom(str, "\n", 1)
       IN  IF nl = 0 THEN <<str>>
           ELSE <<SubSeq(str, 1, nl - 1)>> \o Lines(SubSeq(str, nl + 1, Len(str)))

\* u32::from_str on a decimal numeral (no sign): the value, or ParseError for
\* an empty field, a character that is no digit, or a value above u32::MAX.
RECURSIVE DecimalValue(_, _)
DecimalValue(str, acc) ==
  IF str = <<>> THEN acc
  ELSE DecimalValue(Tail(str), acc * 10 + DigitValue(Head(str)))

RECURSIVE StripZeros(_)
StripZeros(str) ==
  IF Len(str) > 1 /\ Head(str) = "0" THEN StripZeros(Tail(str)) ELSE str

\* Whether the numeral str names a number above u32::MAX, decided on the
\* digits.
AboveU32Max(str) ==
  LET z == StripZeros(str)
      n == Len(U32MaxDigits)
  IN  \/ Len(z) > n
      \/ /\ Len(z) = n
         /\ \E i \in 1..n :
              /\ DigitValue(z[i]) > DigitValue(U32MaxDigits[i])
              /\ \A j \in 1..(i - 1) : z[j] = U32MaxDigits[j]

ParseU32(str) ==
  IF str = <<>> \/ \E i \in 1..Len(str) : str[i] \notin DigitChars THEN ParseError
  ELSE IF AboveU32Max(str) THEN ParseError
  ELSE Parsed(DecimalValue(str, 0))

\* The decimal numeral Display writes for an unsigned number.
RECURSIVE DecimalString(_)
DecimalString(n) ==
  IF n < 10 THEN <<Digits[n + 1]>>
  ELSE DecimalString(n \div 10) \o <<Digits[(n % 10) + 1]>>

\* RestorePoint's Display, "{from},{to},{hash}".
DisplayPoint(pt) ==
  DecimalString(pt.from) \o <<",">> \o DecimalString(pt.to) \o <<",">> \o pt.hash

\* RestorePoint::from_str for "{from},{to},{hash}": from is the text before the
\* first comma, to the text between the first and the second, hash the rest.
RestorePointFromStr(line) ==
  LET c1 == IndexFrom(line, ",", 1)
      c2 == IF c1 = 0 THEN 0 ELSE IndexFrom(line, ",", c1 + 1)
  IN  IF c1 = 0 \/ c2 = 0 THEN ParseError
      ELSE LET f == ParseU32(SubSeq(line, 1, c1 - 1))
               t == ParseU32(SubSeq(line, c1 + 1, c2 - 1))
           IN  IF ~f.ok \/ ~t.ok THEN ParseError
               ELSE Parsed([from |-> f.val, to |-> t.val,
                            hash |-> SubSeq(line, c2 + 1, Len(line))])

\* usize::saturating_sub
SaturatingSub(a, b) == IF a >= b THEN a - b ELSE 0

\* find_restore_points line 50: (point.from..point.to).contains(&layer_from)
RangeContainsInclusive(pt, layer) == pt.from <= layer /\ layer <= pt.to
RangeContains(pt, layer) == pt.from <= layer /\ layer < pt.to

\* find_restore_points lines 46-54: the index (from 0) of the first point whose
\* range contains layer_from, None when there is none.
TargetIndex(points, layer) ==
  LET hits == { i \in 1..Len(points) : RangeContains(points[i], layer) }
  IN  IF hits = {} THEN None
      ELSE Some((CHOOSE i \in hits : \A j \in hits : i <= j) - 1)

\* find_restore_points lines 57-67: how many leading points the match drains.
DrainedIgnoringJumpBack(t, len, jumpBack) ==
  IF t # None THEN t[1]
  ELSE IF jumpBack = 0 THEN len
  ELSE SaturatingSub(len, jumpBack)
DrainedKeepingAllWhenNoTarget(t, len, jumpBack) ==
  IF t # None THEN SaturatingSub(t[1], jumpBack)
  ELSE IF jumpBack = 0 THEN 0
  ELSE SaturatingSub(len, jumpBack)
Drained(t, len, jumpBack) ==
  IF t # None THEN SaturatingSub(t[1], jumpBack)
  ELSE IF jumpBack = 0 THEN len
  ELSE SaturatingSub(len, jumpBack)

\* A planner that drops the lines that do not parse and plans from the rest.
FindRestorePointsSkippingMalformed(layer, metadata, jumpBack) ==
  LET lines == Lines(Trim(metadata))
      parsed == [i \in 1..Len(lines) |-> RestorePointFromStr(Trim(lines[i]))]
      kept == SelectSeq(parsed, LAMBDA r : r.ok)
      all == [i \in 1..Len(kept) |-> kept[i].val]
  IN  Returned(SubSeq(all,
                      Drained(TargetIndex(all, layer), Len(all), jumpBack) + 1,
                      Len(all)))

\* A planner that drains as many points from the end as the code drains from
\* the front.
FindRestorePointsDrainingTail(layer, metadata, jumpBack) ==
  LET lines == Lines(Trim(metadata))
      parsed == [i \in 1..Len(lines) |-> RestorePointFromStr(Trim(lines[i]))]
      all == [i \in 1..Len(lines) |-> parsed[i].val]
  IN  IF \E i \in 1..Len(lines) : ~parsed[i].ok THEN Panicked
      ELSE Returned(SubSeq(all, 1,
                           Len(all) - Drained(TargetIndex(all, layer), Len(all),
                                              jumpBack)))

\* find_restore_points: parse every line of the trimmed text (a line that does
\* not parse panics), find the target, drain the points before the start.
FindRestorePoints(layer, metadata, jumpBack) ==
  LET lines == Lines(Trim(metadata))
      parsed == [i \in 1..Len(lines) |-> RestorePointFromStr(Trim(lines[i]))]
      all == [i \in 1..Len(lines) |-> parsed[i].val]
  IN  IF \E i \in 1..Len(lines) : ~parsed[i].ok THEN Panicked
      ELSE Returned(SubSeq(all,
                           Drained(TargetIndex(all, layer), Len(all), jumpBack) + 1,
                           Len(all)))

\* ---- the inputs of the planner ----

\* The hash the manifests of the planner model give every point.
PlanHash == <<"a", "b", "c", "d">>

\* A manifest as the source's comment describes it: non-empty ranges, ordered
\* and not overlapping.
WellFormed(points) ==
  /\ \A i \in 1..Len(points) : points[i].from < points[i].to
  /\ \A i \in 1..(Len(points) - 1) : points[i].to <= points[i + 1].from

Contiguous(points) ==
  \A i \in 1..(Len(points) - 1) : points[i].to = points[i + 1].from

\* The well-formed manifests of at most n points over the layers lo..maxLayer.
RECURSIVE ManifestsFrom(_, _, _)
ManifestsFrom(lo, maxLayer, n) ==
  {<<>>} \cup
  (IF n = 0 THEN {}
   ELSE UNION { UNION { { <<[from |-> f, to |-> t, hash |-> PlanHash]>> \o rest :
                            rest \in ManifestsFrom(t, maxLayer, n - 1) } :
                        t \in (f + 1)..maxLayer } :
                f \in lo..maxLayer })

Manifests(maxLayer, maxPoints) == ManifestsFrom(0, maxLayer, maxPoints)

\* The manifest text: one point per line, joined by line feeds ("plain", as
\* tests::finding_restore_points builds it), or each line indented and
\* followed by a line feed after a leading line feed ("indented", the raw
\* string of tests::restore_points_dont_have_missing_data), or a blank line
\* before and after every line ("spaced").
RECURSIVE RenderPlain(_)
RenderPlain(points) ==
  IF points = <<>> THEN <<>>
  ELSE IF Len(points) = 1 THEN DisplayPoint(points[1])
  ELSE DisplayPoint(points[1]) \o <<"\n">> \o RenderPlain(Tail(points))

RECURSIVE RenderIndentedLines(_)
RenderIndentedLines(points) ==
  IF points = <<>> THEN <<" ", " ">>
  ELSE <<" ", " ">> \o DisplayPoint(points[1]) \o <<"\n">>
         \o RenderIndentedLines(Tail(points))

RECURSIVE RenderSpacedLines(_)
RenderSpacedLines(points) ==
  IF points = <<>> THEN <<>>
  ELSE DisplayPoint(points[1]) \o <<"\n", "\n">>
         \o RenderSpacedLines(Tail(points))

Render(points, layout) ==
  IF layout = "plain" THEN RenderPlain(points)
  ELSE IF layout = "indented" THEN <<"\n">> \o RenderIndentedLines(points)
  ELSE <<"\n">> \o RenderSpacedLines(points)

Layouts == {"plain", "indented", "spaced"}

InitPl ==
  /\ plPc = "call"
  /\ plPoints \in Manifests(MaxLayer, MaxPoints)
  /\ plLayerFrom \in 0..(MaxLayer + 1)
  /\ \E layout \in Layouts : plMetadata = Render(plPoints, layout)
  /\ plJumpBack \in 0..MaxJump
  /\ plResult = Returned(<<>>)

IdlePl ==
  /\ plPc = "idle"
  /\ plPoints = <<>>
  /\ plLayerFrom = 0
  /\ plMetadata = <<>>
  /\ plJumpBack = 0
  /\ plResult = Returned(<<>>)

\* The call of find_restore_points.
PlCall ==
  /\ plPc = "call"
  /\ plResult' = FindRestorePoints(plLayerFrom, plMetadata, plJumpBack)
  /\ plPc' = "done"
  /\ UNCHANGED <<plPoints, plLayerFrom, plMetadata, plJumpBack>>
  /\ UNCHANGED <<dlVars, prVars, lfVars, cmdVars>>

NextPl == PlCall

IdleDl ==
  /\ dlPc = "idle"
  /\ fileLen = 0
  /\ sink = <<>>
  /\ pin = NoPin
  /\ maxRetries = 0
  /\ attempts = 0
  /\ offset = 0
  /\ reqUrl = ""
  /\ finalUrl = ""
  /\ body = <<>>
  /\ status = 0
  /\ attemptRes = NoRes
  /\ ret = NoRes
  /\ log = <<>>

----------------------------------------------------------------------------
\* partial_quicksync.rs: partial_restore.

\* Bounds of the restore model: the published manifests cover layers within
\* 0..RMaxLayer with at most RMaxPoints points; untrusted_layers is at most
\* RMaxUntrusted and jump_back at most RMaxJump.
RMaxLayer == 3
RMaxPoints == 2
RMaxUntrusted == 1
RMaxJump == 1

HexDigits == <<"0", "1", "2", "3", "4", "5", "6", "7", "8", "9",
               "a", "b", "c", "d", "e", "f">>

\* hex::encode
RECURSIVE HexEncode(_)
HexEncode(bytes) ==
  IF bytes = <<>> THEN <<>>
  ELSE <<HexDigits[(Head(bytes) \div 16) + 1], HexDigits[(Head(bytes) % 16) + 1]>>
         \o HexEncode(Tail(bytes))

\* The aggregated hash of layer l on the published chain, and two hashes a
\* target database may hold instead: that of another chain, and a blob of a
\* single byte.
TrueHash(l) == <<160 + l, 176 + l, 192 + l>>
ForkedHash(l) == <<160 + l, 255, 192 + l>>
ShortHash(l) == <<160 + l>>

\* A row of the layers table: applied_block (null or not) and aggregated_hash.
Row(h) == [applied |-> TRUE, hash |-> h]

EmptyTable == [l \in {} |-> Row(<<>>)]

\* The hash a published point carries, in hex: the aggregated hash of the
\* layer before its range, of which the chain check reads the first four
\* characters.
PointHash(from) ==
  IF from = 0 THEN <<"0", "0", "0", "0", "0", "0">>
  ELSE HexEncode(TrueHash(from - 1))

Published(m) ==
  [i \in 1..Len(m) |-> [from |-> m[i].from, to |-> m[i].to,
                        hash |-> PointHash(m[i].from)]]

\* The manifests the server may publish: contiguous ranges, chained hashes.
PublishedManifests ==
  { Published(m) : m \in { x \in Manifests(RMaxLayer, RMaxPoints) : Contiguous(x) } }

\* The layers table of the diff database of a point: the layers of its range,
\* applied, with the chain's hashes.
DiffRows(pt) == [l \in pt.from..(pt.to - 1) |-> Row(TrueHash(l))]

\* The target databases a run may start from: no row at all; or the rows
\* lo..latest, either the whole history (lo = 0) or the last layer only, all
\* with the chain's hashes but for at most one, which is forked or short.
TargetTable(lo, latest, bad, variant) ==
  [l \in lo..latest |->
     Row(IF l # bad THEN TrueHash(l)
         ELSE IF variant = "forked" THEN ForkedHash(l) ELSE ShortHash(l))]

InitialTables ==
  {EmptyTable} \cup
  { TargetTable(lo, latest, bad, variant) :
      lo \in 0..(RMaxLayer - 1), latest \in 0..(RMaxLayer - 1),
      bad \in -1..(RMaxLayer - 1), variant \in {"forked", "short"} }

\* A reading of the latest layer that takes the NULL of an empty selection
\* for layer 0.
GetLatestFromDbOrZero(table) ==
  LET applied == { l \in DOMAIN table : table[l].applied }
  IN  IF applied = {} THEN Parsed(0)
      ELSE Parsed(CHOOSE l \in applied : \A k \in applied : k <= l)

\* get_latest_from_db: max(id) over the rows with a non-null applied_block; the
\* NULL of an empty selection does not convert to u32.
GetLatestFromDb(table) ==
  LET applied == { l \in DOMAIN table : table[l].applied }
  IN  IF applied = {} THEN ParseError
      ELSE Parsed(CHOOSE l \in applied : \A k \in applied : k <= l)

\* get_previous_hash: the first two bytes, in hex, of aggregated_hash at layer
\* layer_at - 1; an error when there is no such row; a panic when the blob
\* has fewer than two bytes.
GetPreviousHash(layerAt, table) ==
  LET l == layerAt - 1
  IN  IF l \notin DOMAIN table THEN [kind |-> "err"]
      ELSE IF Len(table[l].hash) < 2 THEN [kind |-> "panic"]
      ELSE [kind |-> "ok", val |-> HexEncode(SubSeq(table[l].hash, 1, 2))]

\* partial_restore line 167
LayerFrom(latest, untrusted) == SaturatingSub(latest + 1, untrusted)

\* partial_restore line 204: previous_hash == p.hash[..4]
HashMatchesFirstByte(prev, hash) == SubSeq(prev, 1, 2) = SubSeq(hash, 1, 2)
HashMatches(prev, hash) == prev = SubSeq(hash, 1, 4)

\* The restore script of the tests, INSERT OR IGNORE INTO layers SELECT * from
\* src.layers: the rows of the attached database whose id the table lacks.
MergeReplacing(table, diff) ==
  [l \in (DOMAIN table) \cup (DOMAIN diff) |->
     IF l \in DOMAIN diff THEN diff[l] ELSE table[l]]
Merge(table, diff) ==
  [l \in (DOMAIN table) \cup (DOMAIN diff) |->
     IF l \in DOMAIN table THEN table[l] ELSE diff[l]]

\* A scratch file: absent, or the artifact of a point, whole or cut short.
Absent == [state |-> "absent"]
Whole(pt) == [state |-> "whole", of |-> pt]
Partial(pt) == [state |-> "partial", of |-> pt]

\* The body of an answer that is not the manifest, such as that of a 404.
ErrorPage == <<"N", "o", "t", " ", "F", "o", "u", "n", "d">>

\* partial_restore lines 169-172: ensure!(!start_points.is_empty(), ...)
TooOld == "No suitable restore points found, seems that state.sql is too old"
AnyPlanAccepted(points) == TRUE
PlanAccepted(points) == points # <<>>

\* The step after step i: the for loop of line 194 takes the points in order.
RepeatStep(i) == i
NextIndex(i) == i + 1

\* Where the run goes when a step ends in an error (the ? of lines 200-235):
\* partial_restore returns; the step number does not move.
ContinueWithNextStep(i) == [pc |-> "loop", idx |-> i + 1]
AfterStepError(i) == [pc |-> "returned", idx |-> i]

\* The revisions of restore.sql: the server starts with the first; a run holds
\* none before it fetched one.
NoScript == 0
FirstScript == 1

\* partial_restore line 224: the script a step executes is restore_string, the
\* text fetched before the loop.
ScriptPublishedNow(held, published) == published
ScriptToRun(held, published) == held

\* Connection::open (lines 159 and 200) adds a connection to those the run
\* holds; conn.close() (lines 189 and 226) takes one away. A return or a panic
\* drops every connection the run holds.
Opened(n) == n + 1
LeftOpen(n) == n
Closed(n) == n - 1

\* What the server published when a fetch was answered.
NotRecorded == [manifest |-> <<>>, script |-> NoScript]
PublishedNow == [manifest |-> prManifest, script |-> pubScript]

InitPr ==
  /\ prPc = "start"
  /\ prManifest \in PublishedManifests
  /\ pubScript = FirstScript
  /\ prUntrusted \in 0..RMaxUntrusted
  /\ prJumpBack \in 0..RMaxJump
  /\ db \in InitialTables
  /\ connOpen = 0
  /\ metaText = <<>>
  /\ plan = <<>>
  /\ haveScript = FALSE
  /\ restoreString = NoScript
  /\ idx = 0
  /\ zstFile = Absent
  /\ srcFile = Absent
  /\ prRet = NoRes
  /\ failedAt = 0
  /\ dbCommitted = db
  /\ events = <<>>
  /\ db0 = db
  /\ runs = 1

IdlePr ==
  /\ prPc = "idle"
  /\ prManifest = <<>>
  /\ pubScript = FirstScript
  /\ prUntrusted = 0
  /\ prJumpBack = 0
  /\ db = EmptyTable
  /\ connOpen = 0
  /\ metaText = <<>>
  /\ plan = <<>>
  /\ haveScript = FALSE
  /\ restoreString = NoScript
  /\ idx = 0
  /\ zstFile = Absent
  /\ srcFile = Absent
  /\ prRet = NoRes
  /\ failedAt = 0
  /\ dbCommitted = EmptyTable
  /\ events = <<>>
  /\ db0 = EmptyTable
  /\ runs = 0

\* History: the event of kind k, with the step it belongs to and the row the
\* chain check of that step reads, as the table holds it now.
Event(k) ==
  [kind |-> k, step |-> idx,
   script |-> IF k = "execute" THEN ScriptToRun(restoreString, pubScript)
              ELSE NoScript,
   published |-> IF k \in {"fetch_metadata", "fetch_script"} THEN PublishedNow
                 ELSE NotRecorded,
   prev |-> IF idx >= 1 /\ idx <= Len(plan) /\ plan[idx].from # 0
            THEN GetPreviousHash(plan[idx].from, db)
            ELSE [kind |-> "none"]]

\* partial_restore returns the error m before the loop (the ? of lines
\* 159-182); the connection is dropped.
PrReturnErr(m) ==
  /\ prRet' = ErrRes(m)
  /\ prPc' = "returned"
  /\ connOpen' = 0

\* A panic ends the run.
PrPanic(m) ==
  /\ prRet' = [kind |-> "panic", msg |-> m]
  /\ prPc' = "returned"
  /\ connOpen' = 0

\* A step of the loop ends in the error m.
PrStepErr(m) ==
  /\ prRet' = ErrRes(m)
  /\ prPc' = AfterStepError(idx).pc
  /\ idx' = AfterStepError(idx).idx
  /\ failedAt' = idx
  /\ connOpen' = 0

\* partial_restore lines 158-160: open the target database, read user_version.
PrOpen ==
  /\ prPc = "start"
  /\ \/ /\ connOpen' = Opened(connOpen)
        /\ prPc' = "fetch_metadata"
        /\ events' = Append(events, Event("open"))
        /\ UNCHANGED prRet
     \/ /\ PrReturnErr(<<"failed to get user version">>)
        /\ UNCHANGED events
  /\ UNCHANGED <<prManifest, db0, runs, prUntrusted, prJumpBack, db, metaText, plan,
                 haveScript, idx, zstFile, srcFile, failedAt, dbCommitted>>
  /\ UNCHANGED <<pubScript, restoreString>>
  /\ UNCHANGED <<dlVars, plVars, lfVars, cmdVars>>

\* The layouts in which the server of the restore model writes metadata.csv:
\* one line per point, with or without blank lines around them.
ServedLayouts == {"plain", "spaced"}

\* partial_restore lines 161-164: fetch metadata.csv. The status of the answer
\* is not looked at: whatever body arrives is the manifest text.
PrFetchMetadata ==
  /\ prPc = "fetch_metadata"
  /\ \/ /\ metaText' \in { Render(prManifest, layout) : layout \in ServedLayouts }
                          \cup {ErrorPage}
        /\ prPc' = "plan"
        /\ events' = Append(events, Event("fetch_metadata"))
        /\ UNCHANGED <<prRet, connOpen>>
     \/ /\ PrReturnErr(<<"error sending request">>)
        /\ UNCHANGED <<metaText, events>>
  /\ UNCHANGED <<prManifest, db0, runs, prUntrusted, prJumpBack, db, plan, haveScript, idx,
                 zstFile, srcFile, failedAt, dbCommitted>>
  /\ UNCHANGED <<pubScript, restoreString>>
  /\ UNCHANGED <<dlVars, plVars, lfVars, cmdVars>>

\* partial_restore lines 166-172: read the latest layer, plan, and require a
\* non-empty plan.
PrPlan ==
  /\ prPc = "plan"
  /\ LET latest == GetLatestFromDb(db)
     IN  IF ~latest.ok
         THEN /\ PrReturnErr(<<"failed to get latest layer from DB">>)
              /\ UNCHANGED plan
         ELSE LET found == FindRestorePoints(LayerFrom(latest.val, prUntrusted),
                                             metaText, prJumpBack)
              IN  IF found.panic
                  THEN /\ PrPanic(<<"parsing restore point">>)
                       /\ UNCHANGED plan
                  ELSE IF ~PlanAccepted(found.points)
                  THEN /\ PrReturnErr(<<TooOld>>)
                       /\ UNCHANGED plan
                  ELSE /\ plan' = found.points
                       /\ prPc' = "fetch_script"
                       /\ UNCHANGED <<prRet, connOpen>>
  /\ UNCHANGED <<prManifest, db0, runs, prUntrusted, prJumpBack, db, metaText,
                 haveScript, idx, zstFile, srcFile, failedAt, dbCommitted, events>>
  /\ UNCHANGED <<pubScript, restoreString>>
  /\ UNCHANGED <<dlVars, plVars, lfVars, cmdVars>>

\* partial_restore lines 174-182: fetch restore.sql.
PrFetchScript ==
  /\ prPc = "fetch_script"
  /\ \/ /\ haveScript' = TRUE
        /\ restoreString' = pubScript
        /\ prPc' = "close_planning"
        /\ events' = Append(events, Event("fetch_script"))
        /\ UNCHANGED <<prRet, connOpen>>
     \/ /\ PrReturnErr(<<"error sending request">>)
        /\ UNCHANGED <<haveScript, restoreString, events>>
  /\ UNCHANGED <<prManifest, db0, runs, prUntrusted, prJumpBack, db, metaText, plan, idx,
                 zstFile, srcFile, failedAt, dbCommitted>>
  /\ UNCHANGED pubScript
  /\ UNCHANGED <<dlVars, plVars, lfVars, cmdVars>>

\* partial_restore line 189: close the planning connection; the loop begins
\* at the first point.
PrClosePlanning ==
  /\ prPc = "close_planning"
  /\ \/ /\ connOpen' = Closed(connOpen)
        /\ idx' = 1
        /\ prPc' = "loop"
        /\ events' = Append(events, Event("close"))
        /\ UNCHANGED prRet
     \/ /\ PrPanic(<<"closing DB connection">>)
        /\ UNCHANGED <<idx, events>>
  /\ UNCHANGED <<prManifest, db0, runs, prUntrusted, prJumpBack, db, metaText, plan,
                 haveScript, zstFile, srcFile, failedAt, dbCommitted>>
  /\ UNCHANGED <<pubScript, restoreString>>
  /\ UNCHANGED <<dlVars, plVars, lfVars, cmdVars>>

\* partial_restore lines 194 and 237: the plan is exhausted, return Ok.
PrReturnOk ==
  /\ prPc = "loop"
  /\ idx > Len(plan)
  /\ prRet' = OkRes
  /\ prPc' = "returned"
  /\ UNCHANGED <<prManifest, db0, runs, prUntrusted, prJumpBack, db, connOpen, metaText,
                 plan, haveScript, idx, zstFile, srcFile, failedAt, dbCommitted,
                 events>>
  /\ UNCHANGED <<pubScript, restoreString>>
  /\ UNCHANGED <<dlVars, plVars, lfVars, cmdVars>>

\* partial_restore lines 194-200: the next point; open a fresh connection.
PrStepOpen ==
  /\ prPc = "loop"
  /\ idx <= Len(plan)
  /\ \/ /\ connOpen' = Opened(connOpen)
        /\ prPc' = "check_hash"
        /\ events' = Append(events, Event("open"))
        /\ UNCHANGED <<prRet, idx, failedAt>>
     \/ /\ PrStepErr(<<"unable to open database file">>)
        /\ UNCHANGED events
  /\ UNCHANGED <<prManifest, db0, runs, prUntrusted, prJumpBack, db, metaText, plan,
                 haveScript, zstFile, srcFile, dbCommitted>>
  /\ UNCHANGED <<pubScript, restoreString>>
  /\ UNCHANGED <<dlVars, plVars, lfVars, cmdVars>>

\* partial_restore lines 201-207: the chain check of a point with from != 0.
PrCheckHash ==
  /\ prPc = "check_hash"
  /\ LET pt == plan[idx]
         prev == GetPreviousHash(pt.from, db)
     IN  IF pt.from = 0
         THEN /\ prPc' = "download_zst"
              /\ UNCHANGED <<prRet, idx, failedAt, connOpen>>
         ELSE IF prev.kind = "err"
         THEN PrStepErr(<<"failed to get previous hash for layer", pt.from - 1>>)
         ELSE IF prev.kind = "panic" \/ Len(pt.hash) < 4
         THEN /\ PrPanic(<<"range end index out of range">>)
              /\ failedAt' = idx
              /\ UNCHANGED idx
         ELSE IF ~HashMatches(prev.val, pt.hash)
         THEN PrStepErr(<<"unexpected hash", prev.val, pt>>)
         ELSE /\ prPc' = "download_zst"
              /\ UNCHANGED <<prRet, idx, failedAt, connOpen>>
  /\ events' = Append(events, Event("check_hash"))
  /\ UNCHANGED <<prManifest, db0, runs, prUntrusted, prJumpBack, db, metaText, plan,
                 haveScript, zstFile, srcFile, dbCommitted>>
  /\ UNCHANGED <<pubScript, restoreString>>
  /\ UNCHANGED <<dlVars, plVars, lfVars, cmdVars>>

\* partial_restore lines 209-212: the uncompressed artifact is requested when
\* the download of the compressed one returned an error, otherwise the
\* compressed file is decompressed.
AlwaysDownloadPlain(ok) == "download_plain"
AfterZstDownload(ok) == IF ok THEN "decompress" ELSE "download_plain"

\* partial_restore line 209 and download_file lines 96-132, for the .zst
\* artifact: on an error the uncompressed artifact is tried. The file is
\* created only after a successful status; a failing copy leaves it cut short.
PrDownloadZst ==
  /\ prPc = "download_zst"
  /\ \/ /\ zstFile' = Whole(plan[idx])
        /\ prPc' = AfterZstDownload(TRUE)
     \/ /\ zstFile' \in {zstFile, Partial(plan[idx])}
        /\ prPc' = AfterZstDownload(FALSE)
  /\ events' = Append(events, Event("download_zst"))
  /\ UNCHANGED <<prManifest, db0, runs, prUntrusted, prJumpBack, db, connOpen, metaText,
                 plan, haveScript, idx, srcFile, prRet, failedAt, dbCommitted>>
  /\ UNCHANGED <<pubScript, restoreString>>
  /\ UNCHANGED <<dlVars, plVars, lfVars, cmdVars>>

\* partial_restore line 210 and download_file lines 96-132, for the
\* uncompressed artifact.
PrDownloadPlain ==
  /\ prPc = "download_plain"
  /\ \/ /\ srcFile' = Whole(plan[idx])
        /\ prPc' = "execute"
        /\ UNCHANGED <<prRet, idx, failedAt, connOpen>>
     \/ /\ srcFile' \in {srcFile, Partial(plan[idx])}
        /\ PrStepErr(<<"Failed to download file">>)
  /\ events' = Append(events, Event("download_plain"))
  /\ UNCHANGED <<prManifest, db0, runs, prUntrusted, prJumpBack, db, metaText, plan,
                 haveScript, zstFile, dbCommitted>>
  /\ UNCHANGED <<pubScript, restoreString>>
  /\ UNCHANGED <<dlVars, plVars, lfVars, cmdVars>>

\* partial_restore line 212 and decompress_file lines 134-149.
PrDecompress ==
  /\ prPc = "decompress"
  /\ \/ /\ srcFile' = Whole(zstFile.of)
        /\ prPc' = "remove_zst"
        /\ UNCHANGED <<prRet, idx, failedAt, connOpen>>
     \/ /\ srcFile' \in {srcFile, Partial(zstFile.of)}
        /\ PrStepErr(<<"Failed to decompress">>)
  /\ events' = Append(events, Event("decompress"))
  /\ UNCHANGED <<prManifest, db0, runs, prUntrusted, prJumpBack, db, metaText, plan,
                 haveScript, zstFile, dbCommitted>>
  /\ UNCHANGED <<pubScript, restoreString>>
  /\ UNCHANGED <<dlVars, plVars, lfVars, cmdVars>>

\* partial_restore lines 213-214: remove the compressed scratch file.
PrRemoveZst ==
  /\ prPc = "remove_zst"
  /\ \/ /\ zstFile' = Absent
        /\ prPc' = "execute"
        /\ UNCHANGED <<prRet, idx, failedAt, connOpen>>
     \/ /\ PrStepErr(<<"removing backup_source.db.zst">>)
        /\ UNCHANGED zstFile
  /\ UNCHANGED <<prManifest, db0, runs, prUntrusted, prJumpBack, db, metaText, plan,
                 haveScript, srcFile, dbCommitted, events>>
  /\ UNCHANGED <<pubScript, restoreString>>
  /\ UNCHANGED <<dlVars, plVars, lfVars, cmdVars>>

\* partial_restore lines 223-225: run the restore script, which attaches
\* backup_source.db and merges its rows. A failing batch may have run some of
\* its statements.
PrExecute ==
  /\ prPc = "execute"
  /\ \/ /\ srcFile.state = "whole"
        /\ db' = Merge(db, DiffRows(srcFile.of))
        /\ dbCommitted' = db'
        /\ prPc' = "close"
        /\ UNCHANGED <<prRet, idx, failedAt, connOpen>>
     \/ /\ db' \in {db, Merge(db, DiffRows(srcFile.of))}
        /\ PrStepErr(<<"executing restore">>)
        /\ UNCHANGED dbCommitted
  /\ events' = Append(events, Event("execute"))
  /\ UNCHANGED <<prManifest, db0, runs, prUntrusted, prJumpBack, metaText, plan, haveScript,
                 zstFile, srcFile>>
  /\ UNCHANGED <<pubScript, restoreString>>
  /\ UNCHANGED <<dlVars, plVars, lfVars, cmdVars>>

\* partial_restore line 226: close the step's connection.
PrCloseStep ==
  /\ prPc = "close"
  /\ \/ /\ connOpen' = Closed(connOpen)
        /\ prPc' = "remove_source"
        /\ events' = Append(events, Event("close"))
        /\ UNCHANGED <<prRet, failedAt>>
     \/ /\ PrPanic(<<"closing DB connection">>)
        /\ failedAt' = idx
        /\ UNCHANGED events
  /\ UNCHANGED <<prManifest, db0, runs, prUntrusted, prJumpBack, db, metaText, plan,
                 haveScript, idx, zstFile, srcFile, dbCommitted>>
  /\ UNCHANGED <<pubScript, restoreString>>
  /\ UNCHANGED <<dlVars, plVars, lfVars, cmdVars>>

\* partial_restore lines 234-236: remove the scratch file; on to the next
\* point.
PrRemoveSource ==
  /\ prPc = "remove_source"
  /\ \/ /\ srcFile' = Absent
        /\ idx' = NextIndex(idx)
        /\ prPc' = "loop"
        /\ UNCHANGED <<prRet, failedAt, connOpen>>
     \/ /\ PrStepErr(<<"removing backup_source.db">>)
        /\ UNCHANGED srcFile
  /\ UNCHANGED <<prManifest, db0, runs, prUntrusted, prJumpBack, db, metaText, plan,
                 haveScript, zstFile, dbCommitted, events>>
  /\ UNCHANGED <<pubScript, restoreString>>
  /\ UNCHANGED <<dlVars, plVars, lfVars, cmdVars>>

NextPr ==
  \/ PrOpen
  \/ PrFetchMetadata
  \/ PrPlan
  \/ PrFetchScript
  \/ PrClosePlanning
  \/ PrReturnOk
  \/ PrStepOpen
  \/ PrCheckHash
  \/ PrDownloadZst
  \/ PrDownloadPlain
  \/ PrDecompress
  \/ PrRemoveZst
  \/ PrExecute
  \/ PrCloseStep
  \/ PrRemoveSource

\* ---- partial_restore invoked again after a run that was killed or failed ----

\* How many times the partial command is run in the re-entrancy model.
MaxRuns == 2

Killed == [kind |-> "killed"]

\* The process is terminated in the middle of partial_restore: the connection
\* goes, the database and the scratch files stay as they are.
PrKill ==
  /\ prPc \notin {"idle", "returned"}
  /\ prPc' = "returned"
  /\ prRet' = Killed
  /\ connOpen' = 0
  /\ UNCHANGED <<prManifest, db0, runs, prUntrusted, prJumpBack, db, metaText,
                 plan, haveScript, idx, zstFile, srcFile, failedAt, dbCommitted,
                 events>>
  /\ UNCHANGED <<pubScript, restoreString>>
  /\ UNCHANGED <<dlVars, plVars, lfVars, cmdVars>>

\* The partial command is run again with the same arguments: partial_restore
\* starts from scratch on the database and the scratch files the earlier run
\* left.
PrReinvoke ==
  /\ prPc = "returned"
  /\ prRet # OkRes
  /\ runs < MaxRuns
  /\ runs' = runs + 1
  /\ prPc' = "start"
  /\ prRet' = NoRes
  /\ metaText' = <<>>
  /\ plan' = <<>>
  /\ haveScript' = FALSE
  /\ restoreString' = NoScript
  /\ idx' = 0
  /\ failedAt' = 0
  /\ dbCommitted' = db
  /\ events' = <<>>
  /\ UNCHANGED <<prManifest, db0, prUntrusted, prJumpBack, db, connOpen, zstFile,
                 srcFile>>
  /\ UNCHANGED pubScript
  /\ UNCHANGED <<dlVars, plVars, lfVars, cmdVars>>

NextReentry ==
  \/ NextPr
  \/ PrKill
  \/ PrReinvoke

\* ---- the server publishes anew while partial_restore runs ----

\* How many revisions of the manifest and of restore.sql the server goes
\* through during a run.
MaxPublications == 2

\* The server replaces metadata.csv and restore.sql: the new manifest has
\* lost its oldest restore point, and from now on a request for either file
\* is answered from the new revision.
PrPublish ==
  /\ prPc \notin {"idle", "returned"}
  /\ pubScript < MaxPublications
  /\ prManifest # <<>>
  /\ pubScript' = pubScript + 1
  /\ prManifest' = Tail(prManifest)
  /\ UNCHANGED <<prPc, db0, runs, prUntrusted, prJumpBack, db, connOpen, metaText,
                 plan, haveScript, restoreString, idx, zstFile, srcFile, prRet,
                 failedAt, dbCommitted, events>>
  /\ UNCHANGED <<dlVars, plVars, lfVars, cmdVars>>

NextPublish ==
  \/ NextPr
  \/ PrPublish

\* The target database holds the published chain.
OnChain(table) == \A l \in DOMAIN table : table[l].hash = TrueHash(l)

----------------------------------------------------------------------------
\* partial_quicksync.rs line 167 on u32: (latest_layer + 1).saturating_sub(
\* untrusted_layers). A u32 is a pair <<high, low>> of 16-bit limbs.

Limb == 65536

U32Zero == <<0, 0>>
U32Max == <<Limb - 1, Limb - 1>>

\* The u32 values the computation is run on: the small ones and those around
\* the limb, the sign bit and the maximum.
U32Samples ==
  {<<0, 0>>, <<0, 1>>, <<0, 2>>, <<0, 10>>, <<0, Limb - 1>>, <<1, 0>>,
   <<Limb \div 2 - 1, Limb - 1>>, <<Limb \div 2, 0>>, <<Limb - 1, Limb - 2>>,
   <<Limb - 1, Limb - 1>>}

U32Less(a, b) == a[1] < b[1] \/ (a[1] = b[1] /\ a[2] < b[2])

\* a + 1 modulo 2^32
WrappingAddOne(a) ==
  IF a[2] < Limb - 1 THEN <<a[1], a[2] + 1>>
  ELSE IF a[1] < Limb - 1 THEN <<a[1] + 1, 0>>
  ELSE U32Zero

\* a - b for b <= a, with borrow
U32Sub(a, b) ==
  IF a[2] >= b[2] THEN <<a[1] - b[1], a[2] - b[2]>>
  ELSE <<a[1] - b[1] - 1, a[2] + Limb - b[2]>>

\* u32::saturating_sub
SaturatingSubU32(a, b) == IF U32Less(a, b) THEN U32Zero ELSE U32Sub(a, b)

U32Value(v) == [panic |-> FALSE, val |-> v]
U32Panic == [panic |-> TRUE]

\* latest_layer + 1: at u32::MAX the addition overflows; a build with overflow
\* checks panics, one without wraps to 0.
AddOne(a, checked) ==
  IF a = U32Max /\ checked THEN U32Panic ELSE U32Value(WrappingAddOne(a))

\* (latest_layer + 1).saturating_sub(untrusted_layers)
LayerFromU32(latest, untrusted, checked) ==
  LET next == AddOne(latest, checked)
  IN  IF next.panic THEN U32Panic
      ELSE U32Value(SaturatingSubU32(next.val, untrusted))

InitLf ==
  /\ lfPc = "call"
  /\ lfLatest \in U32Samples
  /\ lfUntrusted \in U32Samples
  /\ lfChecked \in BOOLEAN
  /\ lfResult = U32Value(U32Zero)

IdleLf ==
  /\ lfPc = "idle"
  /\ lfLatest = U32Zero
  /\ lfUntrusted = U32Zero
  /\ lfChecked = FALSE
  /\ lfResult = U32Value(U32Zero)

LfCompute ==
  /\ lfPc = "call"
  /\ lfResult' = LayerFromU32(lfLatest, lfUntrusted, lfChecked)
  /\ lfPc' = "done"
  /\ UNCHANGED <<lfLatest, lfUntrusted, lfChecked>>
  /\ UNCHANGED <<dlVars, plVars, prVars, cmdVars>>

NextLf == LfCompute

(***************************************************************************)
(* main.rs, Commands::Download, with checksum.rs, unpack.rs and           *)
(* utils::backup_file: one run of the Download command over the files of  *)
(* the node data directory.                                                *)
(***************************************************************************)

MaxBackups == 1

\* Exit codes of the process. ExitError is what a main that returns Err
\* exits with, ExitPanic what a panic exits with.
ExitOk == 0
ExitError == 1
ExitNoSpace == 2
ExitUnpackFailed == 3
ExitDbMismatch == 4
ExitDbUnverifiable == 5
ExitBackupFailed == 6
ExitArchiveMismatch == 7
ExitArchiveUnverifiable == 8
ExitPanic == 101

Running == [exited |-> FALSE, code |-> ExitOk]
Exit(n) == [exited |-> TRUE, code |-> n]

\* A file that exists, by what it holds.
File(c) == [state |-> "file", content |-> c]

\* A URL is the sequence of the pieces the code looks at: what precedes the
\* extension, the extension, and what was pushed after it.
VersionUrl == <<"https://origin/v1.2.3/state", ".zst">>
SnapshotUrl == <<"https://cdn/10/61579", ".sql.zst">>
\* The pin file after a write that failed between File::create and the bytes.
EmptyUrl == <<>>

\* Where the download of url ends after the redirects were followed: the
\* versioned URL is redirected to the snapshot or served in place.
CmdFinalUrls(url) ==
  IF url = VersionUrl THEN {VersionUrl, SnapshotUrl}
  ELSE IF url = SnapshotUrl THEN {SnapshotUrl}
  ELSE {}

\* Url::parse
UrlParses(text) == text # <<>>

\* str::replace and str::ends_with on the pieces of a URL
Replace(url, from, to) ==
  [i \in 1..Len(url) |-> IF url[i] = from THEN to ELSE url[i]]
EndsWith(url, ext) == url # <<>> /\ url[Len(url)] = ext

\* Result<Url>, Result<String> and Result<bool>
OkUrl(u) == [kind |-> "ok", url |-> u]
OkText(t) == [kind |-> "ok", text |-> t]
OkBool(b) == [kind |-> "ok", value |-> b]
Failed(m) == [kind |-> "err", msg |-> m]

\* checksum.rs: get_link_to_archive_md5
GetLinkToArchiveMd5(url) == OkUrl(Append(url, ".md5"))

\* checksum.rs: get_link_to_db_md5
GetLinkToDbMd5(url) ==
  IF EndsWith(url, ".sql.zip") THEN OkUrl(Replace(url, ".sql.zip", ".sql.md5"))
  ELSE IF EndsWith(url, ".sql.zst") THEN OkUrl(Replace(url, ".sql.zst", ".sql.md5"))
  ELSE Failed("URL does not end with .sql.zip")

\* The MD5 digest of what a file holds, as bytes.
Md5(c) ==
  CASE c = "genuine_zst" -> <<171, 18>>
    [] c = "corrupt_zst" -> <<171, 19>>
    [] c = "genuine_sql" -> <<205, 52>>
    [] c = "garbled_sql" -> <<14, 240>>
    [] c = "partial_sql" -> <<94, 7>>
    [] c = "stale_sql" -> <<60, 222>>
    [] OTHER -> <<255, 1>>

\* format!("{:x}", hash)
LowerHex(bytes) == HexEncode(bytes)

UpperOf(ch) ==
  CASE ch = "a" -> "A" [] ch = "b" -> "B" [] ch = "c" -> "C"
    [] ch = "d" -> "D" [] ch = "e" -> "E" [] ch = "f" -> "F"
    [] OTHER -> ch

\* The same digest as a tool that prints capital hex digits writes it.
UpperHex(bytes) ==
  [i \in 1..Len(HexEncode(bytes)) |-> UpperOf(HexEncode(bytes)[i])]

\* What the server answers to the request of a digest.
Answer(text) == [status |-> 200, body |-> text]
NotFound == [status |-> 404, body |-> ErrorPage]

\* The answers a server can give for the digest of content c: the digest as
\* md5sum prints it, with and without the line end, the digest in capital
\* digits, the digest of another snapshot, or no digest.
DigestAnswers(c) ==
  { Answer(LowerHex(Md5(c))),
    Answer(LowerHex(Md5(c)) \o <<"\n">>),
    Answer(UpperHex(Md5(c))),
    Answer(LowerHex(Md5("another snapshot")) \o <<"\n">>),
    NotFound }

\* The server: the digest of the archive is published next to the URL the
\* archive was served at, the digest of the database next to the snapshot.
Serve(url) ==
  IF url \in {Append(SnapshotUrl, ".md5"), Append(VersionUrl, ".md5")}
  THEN pubArchiveMd5
  ELSE IF url = Replace(SnapshotUrl, ".sql.zst", ".sql.md5") THEN pubDbMd5
  ELSE NotFound

\* utils.rs: strip_trailing_newline
StripSingleNewline(text) ==
  IF text # <<>> /\ text[Len(text)] = "\n"
  THEN SubSeq(text, 1, Len(text) - 1)
  ELSE text
StripTrailingNewline(text) == TrimEnd(text)

\* checksum.rs: download_checksum; answered is whether send() got an answer.
DownloadChecksum(url, answered) ==
  IF ~answered THEN Failed("error sending request")
  ELSE IF IsSuccess(Serve(url).status)
       THEN OkText(StripTrailingNewline(Serve(url).body))
       ELSE Failed("Cannot download MD5 checksum")

\* checksum.rs: calculate_checksum; readable is whether the file could be
\* opened and read to its end.
CalculateChecksum(file, readable) ==
  IF file = Absent \/ ~readable THEN Failed("cannot read the file")
  ELSE OkText(LowerHex(Md5(file.content)))

\* checksum.rs lines 84 and 95: md5_actual == md5_expected on two Strings.
DigestsEqual(actual, expected) == actual = expected

\* What the environment can do to one verification.
VerifyFaults == {"none", "pin unreadable", "no answer", "file unreadable"}

\* checksum.rs: the part verify_archive and verify_db share, from the link
\* to the digest on.
VerifyAgainstBailingOnMismatch(link, file, fault) ==
  IF link.kind = "err" THEN link
  ELSE LET md5_expected == DownloadChecksum(link.url, fault # "no answer")
           md5_actual == CalculateChecksum(file, fault # "file unreadable")
       IN IF md5_expected.kind = "err" THEN md5_expected
          ELSE IF md5_actual.kind = "err" THEN md5_actual
          ELSE IF md5_actual.text = md5_expected.text THEN OkBool(TRUE)
          ELSE Failed("checksums are not equal")
VerifyAgainst(link, file, fault) ==
  IF link.kind = "err" THEN link
  ELSE LET md5_expected == DownloadChecksum(link.url, fault # "no answer")
           md5_actual == CalculateChecksum(file, fault # "file unreadable")
       IN IF md5_expected.kind = "err" THEN md5_expected
          ELSE IF md5_actual.kind = "err" THEN md5_actual
          ELSE OkBool(DigestsEqual(md5_actual.text, md5_expected.text))

\* checksum.rs: verify_archive
VerifyArchive(pin_file, archive, fault) ==
  IF pin_file = Absent \/ fault = "pin unreadable" THEN Failed("cannot read the pin file")
  ELSE IF ~UrlParses(pin_file.content) THEN Failed("relative URL without a base")
  ELSE VerifyAgainst(GetLinkToArchiveMd5(pin_file.content), archive, fault)

\* checksum.rs: verify_db
VerifyDb(pin_file, unpacked, fault) ==
  IF pin_file = Absent \/ fault = "pin unreadable" THEN Failed("cannot read the pin file")
  ELSE IF ~UrlParses(pin_file.content) THEN Failed("relative URL without a base")
  ELSE VerifyAgainst(GetLinkToDbMd5(pin_file.content), unpacked, fault)

\* main.rs lines 252-266 and 292-307: the arm of the match a verification
\* result takes: only Ok(true) lets the run go on.
PassesOnAnyVerdict(r) == r.kind = "ok"
Passes(r) == r.kind = "ok" /\ r.value

\* main.rs lines 264 and 305: the exit code when a verification failed.
UnverifiableExit(op) ==
  IF op = "verify_archive" THEN ExitArchiveUnverifiable ELSE ExitDbUnverifiable

\* main.rs lines 260 and 301: the exit code when the digests differ.
MismatchExitAsUnverifiable(op) == UnverifiableExit(op)
MismatchExit(op) ==
  IF op = "verify_archive" THEN ExitArchiveMismatch ELSE ExitDbMismatch

\* The digests one verification compared, for the history: empty when it
\* did not get that far.
TextOf(r) == IF r.kind = "ok" THEN r.text ELSE <<>>

\* One record of the history of a run: the step, how it ended, and for a
\* verification the two digests it compared, what the environment did to it
\* and the URL the pin file held.
Step(op, verdict, actual, expected) ==
  [op |-> op, verdict |-> verdict, actual |-> actual, expected |-> expected,
   fault |-> "none", pinned |-> <<>>]
Did(op, verdict) == Step(op, verdict, <<>>, <<>>)

VerdictOf(r) ==
  IF r.kind = "err" THEN "error" ELSE IF r.value THEN "equal" ELSE "differ"

\* The record of a verification of file against the digest at link.
Verified(op, r, link, file, fault, pinned) ==
  [ (IF r.kind = "err" THEN Did(op, "error")
     ELSE Step(op, VerdictOf(r),
               TextOf(CalculateChecksum(file, TRUE)),
               TextOf(DownloadChecksum(link.url, TRUE))))
    EXCEPT !.fault = fault, !.pinned = pinned ]

\* utils.rs: backup_file. The backup names in the order the loop tries
\* them: state.sql.bak, state.sql.bak.1, state.sql.bak.2, ...
FirstFree(baks) == CHOOSE i \in 1..Len(baks) :
  /\ baks[i] = Absent
  /\ \A j \in 1..(i - 1) : baks[j] # Absent

BackupFileOverwriting(baks, file) == [baks EXCEPT ![1] = file]
BackupFile(baks, file) == [baks EXCEPT ![FirstFree(baks)] = file]

\* The backups a run can find: at most MaxBackups of the names state.sql.bak,
\* state.sql.bak.1, ..., not necessarily the first ones.
BackupsFound ==
  {found \in SUBSET (1..(MaxBackups + 1)) : Cardinality(found) <= MaxBackups}

\* The files of the node's data directory as they are now.
FilesNow ==
  [archive |-> archiveFile, redirect |-> redirectFile, temp |-> tempFile,
   unpacked |-> unpackedFile, final |-> finalFile, wal |-> walFile,
   backups |-> backups]

\* main.rs line 205: the archive is downloaded when state.zst does not exist.
AlwaysDownload(archive) == TRUE
NeedsDownload(archive) == archive = Absent

InitCmd ==
  /\ cmdPc = "download"
  /\ archiveFile \in {Absent, File("genuine_zst"), File("corrupt_zst")}
  /\ redirectFile \in {Absent, File(SnapshotUrl)}
  /\ tempFile \in {Absent, File("partial_zst")}
  /\ unpackedFile \in {Absent, File("stale_sql")}
  /\ finalFile \in {Absent, File("old_sql")}
  /\ walFile \in {Absent, File("old_wal")}
  /\ \E found \in BackupsFound :
       backups = [i \in 1..(MaxBackups + 2) |->
                    IF i \in found THEN File("older_sql") ELSE Absent]
  /\ pubArchiveMd5 \in DigestAnswers("genuine_zst")
  /\ pubDbMd5 \in DigestAnswers("genuine_sql")
  /\ exitCode = Running
  /\ steps = <<>>
  /\ cmdStart = FilesNow

IdleCmd ==
  /\ cmdPc = "idle"
  /\ archiveFile = Absent
  /\ redirectFile = Absent
  /\ tempFile = Absent
  /\ unpackedFile = Absent
  /\ finalFile = Absent
  /\ walFile = Absent
  /\ backups = <<>>
  /\ pubArchiveMd5 = NotFound
  /\ pubDbMd5 = NotFound
  /\ exitCode = Running
  /\ steps = <<>>
  /\ cmdStart = FilesNow

\* process::exit(n), a panic, or main returning.
CmdExits(n) ==
  /\ cmdPc' = "exited"
  /\ exitCode' = Exit(n)

CmdGoesOn(pc) ==
  /\ cmdPc' = pc
  /\ exitCode' = Running

\* main.rs lines 204-247: download the archive unless state.zst exists.
CmdDownload ==
  /\ cmdPc = "download"
  /\ IF ~NeedsDownload(archiveFile)
     THEN /\ CmdGoesOn("verify_archive")
          /\ UNCHANGED <<archiveFile, redirectFile, tempFile, steps>>
     ELSE LET url == IF redirectFile # Absent THEN redirectFile.content
                     ELSE VersionUrl
          IN
          \/ \* reading the pin file, get_version or opening state.download
             \* failed: main returns the error
             /\ CmdExits(ExitError)
             /\ steps' = Append(steps, Did("download", "not started"))
             /\ UNCHANGED <<archiveFile, redirectFile, tempFile>>
          \/ \* download_with_retries returned Err
             \E pinned \in {redirectFile, File(EmptyUrl)}
                           \cup {File(u) : u \in CmdFinalUrls(url)} :
               /\ tempFile' = File("partial_zst")
               /\ redirectFile' = pinned
               /\ CmdExits(ExitError)
               /\ steps' = Append(steps, Did("download", "failed"))
               /\ UNCHANGED archiveFile
          \/ \* download_with_retries returned Ok, then the rename
             \E u \in CmdFinalUrls(url), c \in {"genuine_zst", "corrupt_zst"},
                renamed \in BOOLEAN :
               /\ redirectFile' = File(u)
               /\ steps' = Append(steps, Did("download", "ok"))
               /\ IF renamed
                  THEN /\ archiveFile' = File(c)
                       /\ tempFile' = Absent
                       /\ CmdGoesOn("verify_archive")
                  ELSE /\ tempFile' = File(c)
                       /\ CmdExits(ExitError)
                       /\ UNCHANGED archiveFile
  /\ UNCHANGED <<unpackedFile, finalFile, walFile, backups, pubArchiveMd5,
                 pubDbMd5>>
  /\ UNCHANGED cmdStart
  /\ UNCHANGED <<dlVars, plVars, prVars, lfVars>>

\* main.rs line 258 and lines 298-300: the files removed after a checksum
\* mismatch, in the order of the remove_file calls.
RemovedWithPin(op) ==
  IF op = "verify_archive" THEN <<"archive", "redirect">>
  ELSE <<"unpacked", "archive", "redirect">>
RemovedAfterMismatch(op) ==
  IF op = "verify_archive" THEN <<"archive">>
  ELSE <<"unpacked", "archive", "redirect">>

\* The file is one of the first `removals` files removed after the mismatch.
Gone(name, op, removals) ==
  \E i \in 1..removals : RemovedAfterMismatch(op)[i] = name

\* main.rs lines 258-259 and 298-301: each removal is `remove_file(..)?`, so
\* the first one that fails makes main return the error, with the files
\* before it removed; when all are removed the run exits with the code of the
\* mismatch.
RemoveAfterMismatch(op) ==
  \E removals \in 0..Len(RemovedAfterMismatch(op)) :
    /\ unpackedFile' =
         IF Gone("unpacked", op, removals) THEN Absent ELSE unpackedFile
    /\ archiveFile' =
         IF Gone("archive", op, removals) THEN Absent ELSE archiveFile
    /\ redirectFile' =
         IF Gone("redirect", op, removals) THEN Absent ELSE redirectFile
    /\ IF removals = Len(RemovedAfterMismatch(op))
       THEN CmdExits(MismatchExit(op))
       ELSE CmdExits(ExitError)

\* main.rs lines 249-268: verify the archive when the pin file exists.
CmdVerifyArchive ==
  /\ cmdPc = "verify_archive"
  /\ IF redirectFile = Absent
     THEN /\ CmdGoesOn("unpack")
          /\ steps' = Append(steps, Did("verify_archive", "skipped"))
          /\ UNCHANGED <<unpackedFile, archiveFile, redirectFile>>
     ELSE \E fault \in VerifyFaults :
            LET r == VerifyArchive(redirectFile, archiveFile, fault)
                link == GetLinkToArchiveMd5(redirectFile.content)
            IN
            /\ steps' = Append(steps, Verified("verify_archive", r, link,
                                  archiveFile, fault, redirectFile.content))
            /\ IF Passes(r)
               THEN /\ CmdGoesOn("unpack")
                    /\ UNCHANGED <<unpackedFile, archiveFile, redirectFile>>
               ELSE IF r.kind = "ok"
               THEN RemoveAfterMismatch("verify_archive")
               ELSE /\ CmdExits(UnverifiableExit("verify_archive"))
                    /\ UNCHANGED <<unpackedFile, archiveFile, redirectFile>>
  /\ UNCHANGED <<tempFile, finalFile, walFile, backups, pubArchiveMd5,
                 pubDbMd5>>
  /\ UNCHANGED cmdStart
  /\ UNCHANGED <<dlVars, plVars, prVars, lfVars>>

\* unpack.rs: what unpack_zstd writes when it returns Ok.
Unpacked(c) == IF c = "genuine_zst" THEN "genuine_sql" ELSE "garbled_sql"

\* main.rs lines 275-285: the exit code for an unpack error, from the OS error
\* code of the io::Error it carries, if it carries one.
NoSpace == "os error 28"
OtherError == "other error"
UnpackErrors == {NoSpace, OtherError}
UnpackExit(err) == IF err = NoSpace THEN ExitNoSpace ELSE ExitUnpackFailed

\* main.rs lines 270-287 with unpack.rs: unpack state.zst into
\* state_downloaded.sql. A failure leaves the output as it was when it came
\* before File::create (opening the archive, creating the decoder, the
\* directory or the file), and a part of it when it came during the copy.
\* After a failure remove_file(state_downloaded.sql)? comes before the exit:
\* when there is no such file, or it cannot be removed, main returns that error.
CmdUnpack ==
  /\ cmdPc = "unpack"
  /\ \/ /\ unpackedFile' = File(Unpacked(archiveFile.content))
        /\ steps' = Append(steps, Did("unpack", "ok"))
        /\ CmdGoesOn("verify_db")
     \/ \E err \in UnpackErrors, created \in BOOLEAN, removed \in BOOLEAN :
          LET output == IF created THEN File("partial_sql") ELSE unpackedFile
          IN
          /\ steps' = Append(steps, [Did("unpack", "failed") EXCEPT !.fault = err])
          /\ IF output # Absent /\ removed
             THEN /\ unpackedFile' = Absent
                  /\ CmdExits(UnpackExit(err))
             ELSE /\ unpackedFile' = output
                  /\ CmdExits(ExitError)
  /\ UNCHANGED <<archiveFile, redirectFile, tempFile, finalFile, walFile,
                 backups, pubArchiveMd5, pubDbMd5>>
  /\ UNCHANGED cmdStart
  /\ UNCHANGED <<dlVars, plVars, prVars, lfVars>>

\* main.rs lines 289-310: verify the unpacked database when the pin file
\* exists. After a mismatch three files are removed in turn, and the first
\* removal that fails makes main return the error.
CmdVerifyDb ==
  /\ cmdPc = "verify_db"
  /\ IF redirectFile = Absent
     THEN /\ CmdGoesOn("backup")
          /\ steps' = Append(steps, Did("verify_db", "skipped"))
          /\ UNCHANGED <<unpackedFile, archiveFile, redirectFile>>
     ELSE \E fault \in VerifyFaults :
            LET r == VerifyDb(redirectFile, unpackedFile, fault)
                link == GetLinkToDbMd5(redirectFile.content)
            IN
            /\ steps' = Append(steps, Verified("verify_db", r, link,
                                  unpackedFile, fault, redirectFile.content))
            /\ IF Passes(r)
               THEN /\ CmdGoesOn("backup")
                    /\ UNCHANGED <<unpackedFile, archiveFile, redirectFile>>
               ELSE IF r.kind = "ok"
               THEN RemoveAfterMismatch("verify_db")
               ELSE /\ CmdExits(UnverifiableExit("verify_db"))
                    /\ UNCHANGED <<unpackedFile, archiveFile, redirectFile>>
  /\ UNCHANGED <<tempFile, finalFile, walFile, backups, pubArchiveMd5,
                 pubDbMd5>>
  /\ UNCHANGED cmdStart
  /\ UNCHANGED <<dlVars, plVars, prVars, lfVars>>

\* main.rs lines 312-313 with backup_or_fail and utils::backup_file: move
\* state.sql, then state.sql-wal, out of the way. failing is the backup at
\* which try_exists or the rename fails, 0 for none.
CmdBackup ==
  /\ cmdPc = "backup"
  /\ \E failing \in 0..2 :
       LET first == finalFile # Absent /\ failing # 1
           baks1 == IF first THEN BackupFile(backups, finalFile) ELSE backups
           second == walFile # Absent /\ failing = 0
           baks2 == IF second THEN BackupFile(baks1, walFile) ELSE baks1
       IN
       /\ failing = 1 => finalFile # Absent
       /\ failing = 2 => walFile # Absent
       /\ finalFile' = IF first THEN Absent ELSE finalFile
       /\ walFile' = IF second THEN Absent ELSE walFile
       /\ backups' = baks2
       /\ IF failing = 0
          THEN /\ CmdGoesOn("install")
               /\ steps' = Append(steps, Did("backup", "ok"))
          ELSE /\ CmdExits(ExitBackupFailed)
               /\ steps' = Append(steps, Did("backup", "failed"))
  /\ UNCHANGED <<archiveFile, redirectFile, tempFile, unpackedFile,
                 pubArchiveMd5, pubDbMd5>>
  /\ UNCHANGED cmdStart
  /\ UNCHANGED <<dlVars, plVars, prVars, lfVars>>

\* main.rs lines 315-316: rename state_downloaded.sql to state.sql, or panic.
CmdInstall ==
  /\ cmdPc = "install"
  /\ \E renamed \in BOOLEAN :
       IF renamed
       THEN /\ finalFile' = unpackedFile
            /\ unpackedFile' = Absent
            /\ steps' = Append(steps, Did("install", "ok"))
            /\ CmdGoesOn("cleanup")
       ELSE /\ steps' = Append(steps, Did("install", "failed"))
            /\ CmdExits(ExitPanic)
            /\ UNCHANGED <<finalFile, unpackedFile>>
  /\ UNCHANGED <<archiveFile, redirectFile, tempFile, walFile, backups,
                 pubArchiveMd5, pubDbMd5>>
  /\ UNCHANGED cmdStart
  /\ UNCHANGED <<dlVars, plVars, prVars, lfVars>>

\* main.rs lines 318-330: remove the archive and the pin file when they
\* exist and return Ok; the first removal that fails makes main return the
\* error.
CmdCleanup ==
  /\ cmdPc = "cleanup"
  /\ \E failing \in 0..2 :
       LET first == archiveFile # Absent /\ failing # 1
           second == redirectFile # Absent /\ failing = 0
       IN
       /\ failing = 1 => archiveFile # Absent
       /\ failing = 2 => redirectFile # Absent
       /\ archiveFile' = IF first THEN Absent ELSE archiveFile
       /\ redirectFile' = IF second THEN Absent ELSE redirectFile
       /\ IF failing = 0
          THEN /\ CmdExits(ExitOk)
               /\ steps' = Append(steps, Did("cleanup", "ok"))
          ELSE /\ CmdExits(ExitError)
               /\ steps' = Append(steps, Did("cleanup", "failed"))
  /\ UNCHANGED <<tempFile, unpackedFile, finalFile, walFile, backups,
                 pubArchiveMd5, pubDbMd5>>
  /\ UNCHANGED cmdStart
  /\ UNCHANGED <<dlVars, plVars, prVars, lfVars>>

\* The bodies a digest endpoint may answer with: every text of at most
\* MaxBodyLen characters, hex digits, spaces and line ends.
MaxBodyLen == 3
BodyChars == {"a", "1", " ", "\n"}

RECURSIVE Bodies(_)
Bodies(n) ==
  IF n = 0 THEN {<<>>}
  ELSE LET shorter == Bodies(n - 1)
       IN  shorter \cup {Append(b, c) : b \in {x \in shorter : Len(x) = n - 1},
                                        c \in BodyChars}

\* A run that found state.zst and state.url and is about to verify the
\* archive, with a server that answers the digest request with any body.
InitVerify ==
  /\ cmdPc = "verify_archive"
  /\ archiveFile = File("genuine_zst")
  /\ redirectFile = File(SnapshotUrl)
  /\ tempFile = Absent
  /\ unpackedFile = Absent
  /\ finalFile = Absent
  /\ walFile = Absent
  /\ backups = [i \in 1..(MaxBackups + 2) |-> Absent]
  /\ pubArchiveMd5 \in {Answer(b) : b \in Bodies(MaxBodyLen)}
  /\ pubDbMd5 = NotFound
  /\ exitCode = Running
  /\ steps = <<>>
  /\ cmdStart = FilesNow

NextCmd ==
  \/ CmdDownload
  \/ CmdVerifyArchive
  \/ CmdUnpack
  \/ CmdVerifyDb
  \/ CmdBackup
  \/ CmdInstall
  \/ CmdCleanup

vars == <<dlVars, plVars, prVars, lfVars, cmdVars>>

\* A run of the download command: the planner and the restore are not called.
InitDownload == InitDl /\ IdlePl /\ IdlePr /\ IdleLf /\ IdleCmd

SpecDownload == InitDownload /\ [][NextDl]_vars

\* A call of find_restore_points alone.
InitPlan == InitPl /\ IdleDl /\ IdlePr /\ IdleLf /\ IdleCmd

SpecPlan == InitPlan /\ [][NextPl]_vars

\* A run of the partial command.
InitRestore == InitPr /\ IdleDl /\ IdlePl /\ IdleLf /\ IdleCmd

SpecRestore == InitRestore /\ [][NextPr]_vars

\* The partial command run on a database of the published chain, killed or
\* failing, and run again.
InitReentry == InitRestore /\ OnChain(db)

SpecReentry == InitReentry /\ [][NextReentry]_vars

\* The partial command run on a database of the published chain with the
\* default arguments, while the server publishes anew.
InitPublish ==
  InitRestore /\ OnChain(db) /\ prUntrusted = 0 /\ prJumpBack = 0

SpecPublish == InitPublish /\ [][NextPublish]_vars

\* The computation of layer_from alone, on u32 values.
InitLayerFrom == InitLf /\ IdleDl /\ IdlePl /\ IdlePr /\ IdleCmd

SpecLayerFrom == InitLayerFrom /\ [][NextLf]_vars

\* One run of the Download command of main.
InitCommand == InitCmd /\ IdleDl /\ IdlePl /\ IdlePr /\ IdleLf

SpecCommand == InitCommand /\ [][NextCmd]_vars

\* The archive verification alone, on any body of the digest response.
InitChecksum == InitVerify /\ IdleDl /\ IdlePl /\ IdlePr /\ IdleLf

NextChecksum == CmdVerifyArchive

SpecChecksum == InitChecksum /\ [][NextChecksum]_vars

\* main: one run of the program, of its Download command or of its Partial
\* command.
InitMain ==
  /\ IdleDl /\ IdlePl /\ IdleLf
  /\ \/ InitCmd /\ IdlePr
     \/ IdleCmd /\ InitPr

NextMain ==
  \/ NextCmd
  \/ NextPr

SpecMain == InitMain /\ [][NextMain]_vars

----------------------------------------------------------------------------
\* Claims about the download.

\* The record of the current (or, between attempts, the last) attempt.
Cur == log[Len(log)]

\* C1: resume idempotence. With a server that answers a range request with the
\* bytes from the requested offset on, the sink is a prefix of the remote file
\* at every moment, every attempt requests exactly the sink's length, and the
\* sink is the whole file when Ok is returned.
C1_ResumeIdempotence ==
  /\ IsPrefix(sink, Remote(fileLen))
  /\ \A i \in 1..Len(log) :
       log[i].built => log[i].range = Len(log[i].sinkBefore)
  /\ ret = OkRes => sink = Remote(fileLen)

\* Ok was returned after an attempt that began at a split point inside the
\* file, left there by an earlier attempt of the call that failed after it had
\* appended bytes to an empty sink.
C1_Witness ==
  /\ ret = OkRes
  /\ Len(log) >= 2
  /\ log[1].sinkBefore = <<>>
  /\ \E i \in 2..Len(log) :
       /\ log[i].built
       /\ log[i].range > 0
       /\ log[i].range < fileLen
       /\ Len(log[i].sinkBefore) > Len(log[i - 1].sinkBefore)

\* C2: download_with_retries makes at most max_retries + 1 attempts; it makes
\* no attempt after a successful one and returns Ok then; it returns an error
\* only after max_retries + 1 failed attempts, and that error is the last
\* attempt's; until it has returned it can take a step.
C2_BoundedRetries ==
  /\ attempts <= maxRetries + 1
  /\ Len(log) = attempts
  /\ \A i \in 1..Len(log) : i < Len(log) => log[i].res = "err"
  /\ ret.kind = "ok" => Cur.res = "ok"
  /\ ret.kind = "err" =>
       /\ attempts = maxRetries + 1
       /\ Cur.res = "err"
       /\ ret = attemptRes
  /\ dlPc = "returned" <=> ret # NoRes
  /\ dlPc # "returned" => ENABLED NextDl

\* The error of the last allowed attempt was returned after at least one retry.
C2_Witness ==
  /\ ret.kind = "err"
  /\ maxRetries >= 1
  /\ Len(log) = maxRetries + 1
  /\ ret = attemptRes

\* The final URL the pin file holds at the start of attempt j, when an attempt
\* before j wrote it: that of the latest attempt before j that wrote it.
PinnedBefore(j) ==
  { log[i].final : i \in { k \in 1..(j - 1) :
      /\ log[k].pinned
      /\ \A m \in (k + 1)..(j - 1) : ~log[m].pinned } }

\* C3, as the claim states it: an attempt that finds the pin file sends its
\* request to the file's content; and once an attempt of the call received a
\* 206, every later attempt targets the pinned URL and none uses the
\* caller-supplied URL again.
C3_Original ==
  \A j \in 1..Len(log) :
    /\ (log[j].built /\ log[j].pinBefore # NoPin) => log[j].url = log[j].pinBefore
    /\ \A i \in 1..(j - 1) :
         (log[i].got206 /\ log[j].built) =>
           /\ log[j].pinBefore # NoPin
           /\ log[j].url = log[j].pinBefore

\* C3, amended: an attempt that finds the pin file sends its request to the
\* file's content, one that does not find it to the caller-supplied URL; and
\* once an attempt of the call has written the pin file, every later attempt
\* finds the file, holding the final URL written last or what a failed rewrite
\* left of it, and so never uses the caller-supplied URL again.
C3_RedirectPinning ==
  \A j \in 1..Len(log) :
    /\ log[j].built =>
         log[j].url = IF log[j].pinBefore # NoPin THEN log[j].pinBefore ELSE OrigUrl
    /\ \A i \in 1..(j - 1) :
         log[i].pinned =>
           /\ log[j].pinBefore # NoPin
           /\ log[j].pinBefore \in PinnedBefore(j) \cup {TruncatedPin}

\* The first attempt found no pin file, was redirected and pinned the mirror;
\* the second sent its request to the mirror.
C3_Witness ==
  /\ Len(log) >= 2
  /\ log[1].pinBefore = NoPin
  /\ log[1].url = OrigUrl
  /\ log[1].pinned
  /\ log[1].final = RedirUrl
  /\ log[2].built
  /\ log[2].url = RedirUrl

\* C4: whenever the sink has grown during an attempt, the pin file holds the
\* final URL of that attempt, also after the attempt failed.
C4_PinBeforeBody ==
  (Len(log) > 0 /\ sink # Cur.sinkBefore) =>
     /\ Cur.pinned
     /\ pin = Cur.final
     /\ pin = finalUrl

\* An attempt that found no pin file and was redirected failed after it had
\* appended bytes: the pin file holds the mirror's URL.
C4_Witness ==
  /\ dlPc = "result"
  /\ attemptRes = ErrRes(<<"failed writing">>)
  /\ Len(sink) > Len(Cur.sinkBefore)
  /\ Cur.pinBefore = NoPin
  /\ pin = RedirUrl

\* What an error message of a non-2xx answer may carry.
ParsedErrors == { ReadErrorResponse(b) : b \in ErrorBodies }

\* The attempt left the sink and the pin file as it found them.
AttemptChangedNothing == sink = Cur.sinkBefore /\ pin = Cur.pinBefore

\* C5, as the claim states it: an attempt that received a status succeeds only
\* on 206; another 2xx gives `expected 206, but got <status>`; a non-2xx gives
\* an error starting with `failed to download from` that carries the parsed
\* body or `Unknown error`; in both cases sink and pin file are untouched.
C5_Original ==
  (dlPc = "result" /\ status # 0) =>
     /\ attemptRes.kind = "ok" => status = PARTIAL_CONTENT
     /\ (status # PARTIAL_CONTENT /\ IsSuccess(status)) =>
          /\ attemptRes = ErrRes(ExpectedMsg(status))
          /\ AttemptChangedNothing
     /\ ~IsSuccess(status) =>
          /\ \E e \in ParsedErrors : attemptRes = ErrRes(FailedMsg(reqUrl, status, e))
          /\ AttemptChangedNothing

\* C5, amended: as above, but a non-2xx answer whose body cannot be read gives
\* the error of that read instead of `failed to download from`.
C5_StatusHandling ==
  (dlPc = "result" /\ status # 0) =>
     /\ attemptRes.kind = "ok" => status = PARTIAL_CONTENT
     /\ (status # PARTIAL_CONTENT /\ IsSuccess(status)) =>
          /\ attemptRes = ErrRes(ExpectedMsg(status))
          /\ AttemptChangedNothing
     /\ ~IsSuccess(status) =>
          /\ \/ \E e \in ParsedErrors :
                  attemptRes = ErrRes(FailedMsg(reqUrl, status, e))
             \/ attemptRes = ErrRes(<<"error decoding response body">>)
          /\ AttemptChangedNothing

\* A resumed attempt with a pin file got 404 with a body that is not JSON.
C5_Witness ==
  /\ dlPc = "result"
  /\ status = 404
  /\ attemptRes = ErrRes(FailedMsg(RedirUrl, 404, "Unknown error"))
  /\ sink # <<>>
  /\ pin = RedirUrl

\* The attempt that just ended failed on a 2xx status other than 206.
ProtocolFailure ==
  /\ status # PARTIAL_CONTENT
  /\ IsSuccess(status)
  /\ attemptRes = ErrRes(ExpectedMsg(status))

\* The call is about to make another attempt after one that failed.
Retrying == dlPc = "loop" /\ attempts >= 1

\* C29 as stated: an attempt that failed on a 2xx status other than 206 is
\* never followed by another attempt, and its error is what the call returns.
C29_Original ==
  /\ Retrying => ~ProtocolFailure
  /\ (dlPc = "returned" /\ ProtocolFailure) => ret = attemptRes

\* C29: a failure on a 2xx status other than 206 is retried like any other
\* failure: another attempt follows while attempts <= max_retries, and the
\* error is returned, whatever its kind, only by attempt max_retries + 1.
C29_EveryFailureRetried ==
  /\ Retrying => (attemptRes.kind = "err" /\ attempts <= maxRetries)
  /\ (dlPc = "returned" /\ attemptRes.kind = "err") =>
       (ret = attemptRes /\ attempts = maxRetries + 1)

\* The first attempt was answered 200 and the call goes on to a second one.
C29_Witness ==
  /\ Retrying
  /\ attempts = 1
  /\ status = 200
  /\ ProtocolFailure

\* The call started with the whole remote file in the sink, as a run that
\* stopped between the last byte and the rename leaves it.
StartedComplete ==
  /\ fileLen >= 1
  /\ log # <<>>
  /\ log[1].sinkBefore = Remote(fileLen)

\* Every attempt of the call requested the range that starts at the end of
\* the file and none was answered 206; the last one was answered.
AnsweredNon206 ==
  /\ \A i \in 1..Len(log) :
       log[i].built /\ log[i].range = fileLen /\ ~log[i].got206
  /\ status \notin {0, PARTIAL_CONTENT}

\* C30: a call that started with the complete file in the sink and requested
\* `bytes=N-`, answered with a status other than 206, has returned Ok with
\* the sink unchanged.
C30_CompleteSinkResumes ==
  (dlPc = "returned" /\ StartedComplete /\ AnsweredNon206) =>
    /\ ret = OkRes
    /\ sink = Remote(fileLen)

\* The sink held the whole file; every attempt asked for `bytes=N-` and the
\* last was answered 416: the call returned that error after the retries.
C30_Witness ==
  /\ dlPc = "returned"
  /\ StartedComplete
  /\ AnsweredNon206
  /\ status = RANGE_NOT_SATISFIABLE
  /\ maxRetries >= 1
  /\ attempts = maxRetries + 1
  /\ ret.kind = "err"
  /\ ret.msg[1] = "failed to download from "
  /\ sink = Remote(fileLen)

----------------------------------------------------------------------------
\* Claims about the planner.

\* What the call returned.
PlanReturned == plPc = "done" /\ ~plResult.panic

\* A point whose range contains layer_from or follows it.
ContainsOrFollows(pt) == pt.to > plLayerFrom

\* The position in the manifest of the first point whose range contains
\* layer_from, 0 when there is none.
CoveringPoint ==
  LET hits == { i \in 1..Len(plPoints) :
                  plPoints[i].from <= plLayerFrom /\ plLayerFrom < plPoints[i].to }
  IN  IF hits = {} THEN 0 ELSE CHOOSE i \in hits : \A j \in hits : i <= j

Min(a, b) == IF a <= b THEN a ELSE b

C7_JumpBack ==
  (PlanReturned /\ plJumpBack > 0 /\ WellFormed(plPoints)) =>
     LET n == Len(plPoints)
         t == CoveringPoint
         k == plJumpBack
         tail == FindRestorePoints(plLayerFrom, plMetadata, 0).points
     IN  IF t # 0
         THEN /\ tail = SubSeq(plPoints, t, n)
              /\ plResult.points = SubSeq(plPoints, t - Min(k, t - 1), t - 1) \o tail
         ELSE plResult.points = SubSeq(plPoints, n - Min(k, n) + 1, n)

\* Two points lie before the covering one and jump_back = 1: only the nearer
\* one is prefixed.
C7_Witness ==
  /\ PlanReturned
  /\ plJumpBack = 1
  /\ Len(plPoints) = 3
  /\ CoveringPoint = 3
  /\ plResult.points = Tail(plPoints)

C23_BlankLinesTolerated ==
  (plPc = "done" /\ WellFormed(plPoints)) =>
     plResult = FindRestorePoints(plLayerFrom, RenderPlain(plPoints), plJumpBack)

\* A manifest of two points with a blank line between them: the call
\* panicked, where it returns a plan for the clean text.
C23_Witness ==
  /\ plPc = "done"
  /\ Len(plPoints) = 2
  /\ plMetadata = Render(plPoints, "spaced")
  /\ plResult = Panicked
  /\ FindRestorePoints(plLayerFrom, RenderPlain(plPoints), plJumpBack) # Panicked
  /\ FindRestorePoints(plLayerFrom, RenderPlain(plPoints), plJumpBack).points # <<>>

\* The suffix of the manifest that begins after its first d points.
SuffixAfter(d) == SubSeq(plPoints, d + 1, Len(plPoints))

\* C34: for every layer_from, every well-formed manifest and every jump_back
\* the points find_restore_points returns are the manifest without some
\* number of its first points, between none and all of them: a contiguous
\* suffix in manifest order, with no point that is not in the manifest and no
\* point missing after its first element.
C34_ContiguousSuffix ==
  (PlanReturned /\ WellFormed(plPoints)) =>
     /\ \E d \in 0..Len(plPoints) : plResult.points = SuffixAfter(d)
     /\ \A i \in 1..Len(plResult.points) :
          LET at == Len(plPoints) - Len(plResult.points) + i
          IN  /\ at >= 1
              /\ plResult.points[i] = plPoints[at]

\* A manifest of three points, layer_from in the third and jump_back = 1: the
\* first point is dropped, the second and the third are returned.
C34_Witness ==
  /\ PlanReturned
  /\ WellFormed(plPoints)
  /\ Len(plPoints) = 3
  /\ CoveringPoint = 3
  /\ plJumpBack = 1
  /\ plResult.points = SuffixAfter(1)
  /\ plResult.points # plPoints

----------------------------------------------------------------------------
\* Claims about partial_restore, checked under SpecRestore.

\* The events of step i that touch a diff artifact or run the restore script.
SideEffectKinds == {"download_zst", "download_plain", "decompress", "execute"}

SideEffectsOf(i) ==
  { k \in 1..Len(events) : events[k].step = i /\ events[k].kind \in SideEffectKinds }

\* The chain check of step i found a previous hash other than the first four
\* characters of the hash of its point.
Mismatched(k) ==
  /\ events[k].kind = "check_hash"
  /\ events[k].prev.kind = "ok"
  /\ events[k].prev.val # SubSeq(plan[events[k].step].hash, 1, 4)

IsUnexpectedHash(r) ==
  /\ r.kind = "err"
  /\ Len(r.msg) = 3
  /\ r.msg[1] = "unexpected hash"

\* C9: for a planned point with from # 0 whose hash does not begin with
\* previous_hash(from), partial_restore has returned the `unexpected hash`
\* error with no download, decompression or script execution for that point;
\* and whenever an artifact of a point with from # 0 is downloaded or applied,
\* previous_hash(from) as the database holds it at that moment equals the first
\* four characters of the point's hash.
C9_HashChain ==
  /\ \A k \in 1..Len(events) :
       Mismatched(k) =>
         /\ prPc = "returned"
         /\ IsUnexpectedHash(prRet)
         /\ prRet.msg[2] = events[k].prev.val
         /\ prRet.msg[3] = plan[events[k].step]
         /\ SideEffectsOf(events[k].step) = {}
         /\ k = Len(events)
  /\ \A k \in 1..Len(events) :
       (events[k].kind \in SideEffectKinds /\ plan[events[k].step].from # 0) =>
         /\ events[k].prev.kind = "ok"
         /\ events[k].prev.val = SubSeq(plan[events[k].step].hash, 1, 4)

\* A run that applied the first point of its plan and then stopped at the
\* chain check of the second one, the database holding another chain there.
C9_Witness ==
  /\ prPc = "returned"
  /\ IsUnexpectedHash(prRet)
  /\ failedAt = 2
  /\ Mismatched(Len(events))
  /\ \E k \in 1..Len(events) : events[k].kind = "execute" /\ events[k].step = 1

StepErrors ==
  {"Failed to download file", "Failed to decompress", "unexpected hash",
   "executing restore"}

\* C10: when step i ends in a download failure of both artifact forms, a
\* decompression failure, a hash mismatch or a script execution error,
\* partial_restore has returned that error, no step after i has started, and
\* every row committed by the steps before i is in the database as committed.
C10_FailureSemantics ==
  (failedAt > 0 /\ prRet.kind = "err" /\ prRet.msg[1] \in StepErrors) =>
    /\ prPc = "returned"
    /\ idx = failedAt
    /\ \A k \in 1..Len(events) : events[k].step <= failedAt
    /\ \A l \in DOMAIN dbCommitted : l \in DOMAIN db /\ db[l] = dbCommitted[l]
    /\ \A j \in 1..(failedAt - 1) :
         \A l \in plan[j].from..(plan[j].to - 1) : l \in DOMAIN db

\* The second step failed to execute the restore script after the first step
\* had added rows to the database.
C10_Witness ==
  /\ prPc = "returned"
  /\ failedAt = 2
  /\ Len(plan) >= 2
  /\ prRet = ErrRes(<<"executing restore">>)
  /\ \E l \in DOMAIN dbCommitted : plan[1].from <= l /\ l < plan[1].to
  /\ \E k \in 1..Len(events) : events[k].kind = "execute" /\ events[k].step = 1

\* The script executions of the run, in the order they happened.
Executions == SelectSeq(events, LAMBDA e : e.kind = "execute")

\* C11: the points whose restore script execution happened are, in order, the
\* first points of the plan: the k-th execution is that of the k-th planned
\* point, and the plan is in ascending order of from.
C11_PlannedOrder ==
  /\ Len(Executions) <= Len(plan)
  /\ \A k \in 1..Len(Executions) : Executions[k].step = k
  /\ \A i \in 1..(Len(plan) - 1) : plan[i].from < plan[i + 1].from

\* A run that applied a plan of two points and returned Ok.
C11_Witness ==
  /\ prPc = "returned"
  /\ prRet = OkRes
  /\ Len(plan) = 2
  /\ Len(Executions) = 2

\* The lines of the fetched manifest, as find_restore_points reads them, and
\* the first of them that does not parse.
ManifestLines == Lines(Trim(metaText))

Malformed(line) == ~RestorePointFromStr(Trim(line)).ok

HasMalformedLine == \E i \in 1..Len(ManifestLines) : Malformed(ManifestLines[i])

\* The panic of find_restore_points on a line that does not parse.
ParsePanic == [kind |-> "panic", msg |-> <<"parsing restore point">>]

\* The run is past its planning stage and planned on the published manifest:
\* find_restore_points returned.
Planned ==
  /\ prPc \notin {"start", "fetch_metadata", "plan"}
  /\ metaText \notin {<<>>, ErrorPage}
  /\ prRet # ParsePanic

\* layer_from as the run computed it from the database it found.
LayerFrom0 == LayerFrom(GetLatestFromDb(db0).val, prUntrusted)

\* The manifest only begins after layer_from.
GapBelow ==
  /\ GetLatestFromDb(db0).ok
  /\ prManifest # <<>>
  /\ LayerFrom0 < prManifest[1].from

\* The run returned the too-old error having fetched no script, downloaded
\* no diff and changed nothing in the database.
ReportedTooOld ==
  /\ prPc = "returned"
  /\ prRet = ErrRes(<<TooOld>>)
  /\ ~haveScript
  /\ plan = <<>>
  /\ \A k \in 1..Len(events) : events[k].kind \notin SideEffectKinds \cup {"fetch_script"}
  /\ db = db0

\* C13, as the claim states it: whenever the manifest only begins after
\* layer_from, whatever jump_back is, the run reports too old.
C13_Original == (Planned /\ GapBelow) => ReportedTooOld

\* C13, amended: when the manifest only begins after layer_from the run
\* reports too old if jump_back = 0; for jump_back = k > 0 it plans the last
\* min(k, length) points of the manifest and goes on with them.
C13_TooOld ==
  (Planned /\ GapBelow) =>
     IF prJumpBack = 0 THEN ReportedTooOld
     ELSE LET n == Len(prManifest)
          IN  plan = SubSeq(prManifest, n - Min(prJumpBack, n) + 1, n)

\* The database ends below the first point of the manifest, jump_back = 0: too
\* old.
C13_Witness ==
  /\ Planned
  /\ GapBelow
  /\ prJumpBack = 0
  /\ ReportedTooOld


\* The database the run found is at the end of the range the manifest covers:
\* its latest applied layer is the last layer of the last point, and layer_from
\* is the layer after it.
AtEnd ==
  /\ GetLatestFromDb(db0).ok
  /\ prManifest # <<>>
  /\ GetLatestFromDb(db0).val = prManifest[Len(prManifest)].to - 1
  /\ LayerFrom0 = prManifest[Len(prManifest)].to

\* C14: when the database is already at the end of the manifest's range and
\* jump_back = 0, partial_restore returns Ok having applied nothing.
C14_NothingToDo ==
  (Planned /\ AtEnd /\ prJumpBack = 0 /\ prPc = "returned") =>
     /\ prRet = OkRes
     /\ Executions = <<>>
     /\ db = db0

\* Such a run: it returned the too-old error.
C14_Witness ==
  /\ Planned
  /\ AtEnd
  /\ prJumpBack = 0
  /\ ReportedTooOld

\* The last layer the manifest covers.
LastLayer == prManifest[Len(prManifest)].to - 1

Max(a, b) == IF a >= b THEN a ELSE b

C17_ScratchDeleted ==
  /\ prPc = "loop" => srcFile = Absent
  /\ prPc = "returned" => srcFile = Absent

\* The script of a step failed: partial_restore returned with the downloaded
\* diff still in the scratch directory.
C17_Witness ==
  /\ prPc = "returned"
  /\ prRet = ErrRes(<<"executing restore">>)
  /\ failedAt >= 1
  /\ srcFile = Whole(plan[failedAt])

\* What happened in the run after the manifest arrived.
AfterManifest ==
  SelectSeq(events, LAMBDA e : e.kind \notin {"open", "fetch_metadata"})

\* C24: a run leaves planning for the fetch of the restore script only with a
\* manifest all of whose lines parse, and only such a run holds a plan. A run
\* whose manifest has a line that does not parse stops in planning: it keeps no
\* plan, fetches no restore script, downloads no diff, executes nothing and
\* leaves the database as it was, and once find_restore_points was called it
\* has ended in the panic "parsing restore point".
C24_MalformedManifestRejected ==
  /\ prPc = "fetch_script" => ~HasMalformedLine
  /\ plan # <<>> => prPc \notin {"start", "fetch_metadata", "plan"}
  /\ prPc \notin {"start", "fetch_metadata", "plan", "returned"} => plan # <<>>
  /\ (prPc \in {"plan", "returned"} /\ plan = <<>> /\ metaText # <<>>
        /\ HasMalformedLine) =>
       /\ ~haveScript
       /\ AfterManifest = <<>>
       /\ zstFile = Absent /\ srcFile = Absent
       /\ db = db0
       /\ (prPc = "returned" /\ GetLatestFromDb(db).ok) => prRet = ParsePanic

\* A manifest whose first line is a point and whose second line is not: the
\* run ended in the panic with nothing planned.
C24_Witness ==
  /\ prPc = "returned"
  /\ prRet = ParsePanic
  /\ Len(ManifestLines) >= 2
  /\ ~Malformed(ManifestLines[1])
  /\ Malformed(ManifestLines[2])
  /\ plan = <<>>
  /\ db = db0

\* The events of kind kind, by their position in the history.
EventsOf(kind) == {k \in 1..Len(events) : events[k].kind = kind}

\* The positions of partial_restore inside a step, from the opening of the
\* step's connection to its closing.
InsideStep ==
  {"check_hash", "download_zst", "download_plain", "decompress", "remove_zst",
   "execute", "close"}

\* C27: the run never holds two connections; it holds none between the close
\* of the planning connection and the first step, between two steps, while
\* the plaintext scratch file is deleted, and once it returned; inside a step
\* it holds one. Each step opens one connection, after the close of the
\* planning connection or of the step before, and closes it after its
\* execution of the restore script, with the plaintext scratch file still
\* there.
C27_ConnectionDiscipline ==
  /\ connOpen \in {0, 1}
  /\ prPc \in {"loop", "remove_source", "returned"} => connOpen = 0
  /\ prPc \in InsideStep => connOpen = 1
  /\ prPc = "remove_source" => srcFile # Absent
  /\ LET opens == EventsOf("open")
         closes == EventsOf("close")
     IN  /\ \A k \in opens :
              events[k].step >= 1 =>
                /\ \E j \in closes : j < k /\ events[j].step = events[k].step - 1
                /\ \A j \in opens : events[j].step = events[k].step => j = k
         /\ \A k \in closes :
              events[k].step >= 1 =>
                /\ \E j \in EventsOf("execute") :
                     j < k /\ events[j].step = events[k].step
                /\ \E j \in opens : j < k /\ events[j].step = events[k].step

\* The second step closed its connection and is about to delete the plaintext
\* scratch file.
C27_Witness ==
  /\ prPc = "remove_source"
  /\ idx = 2
  /\ connOpen = 0
  /\ srcFile = Whole(plan[2])
  /\ Cardinality(EventsOf("close")) = 3
  /\ Cardinality(EventsOf("open")) = 3

\* The events of kind kind that belong to step i.
StepEvents(kind, i) == {k \in EventsOf(kind) : events[k].step = i}

\* C28: in every step the compressed diff is requested first; the uncompressed
\* diff is requested only after the compressed download failed, and then
\* nothing is decompressed; when the compressed download succeeded the file is
\* decompressed, the compressed scratch file is deleted before the script runs
\* and the uncompressed diff is not requested; the script runs only with the
\* whole plaintext scratch file of the step's point in place; a failure of the
\* download of the uncompressed diff ends the run with that error, the script
\* of that step not having run.
C28_CompressedFirst ==
  /\ prPc = "download_plain" => zstFile # Whole(plan[idx])
  /\ prPc = "decompress" => zstFile = Whole(plan[idx])
  /\ prPc = "execute" =>
       /\ srcFile = Whole(plan[idx])
       /\ StepEvents("decompress", idx) # {} => zstFile = Absent
  /\ \A i \in 1..Len(plan) :
       LET zst == StepEvents("download_zst", i)
           plain == StepEvents("download_plain", i)
           decompressed == StepEvents("decompress", i)
       IN  /\ Cardinality(zst) <= 1
           /\ Cardinality(plain) <= 1
           /\ \A k \in plain \cup decompressed : \E j \in zst : j < k
           /\ plain = {} \/ decompressed = {}
           /\ \A k \in StepEvents("execute", i) :
                \E j \in plain \cup decompressed : j < k
  /\ (prRet.kind = "err" /\ prRet.msg = <<"Failed to download file">>) =>
       /\ prPc = "returned"
       /\ events[Len(events)].kind = "download_plain"
       /\ events[Len(events)].step = failedAt
       /\ StepEvents("execute", failedAt) = {}

\* A run of two steps returned Ok: the first step got the uncompressed diff
\* after the compressed download failed, the second one decompressed.
C28_Witness ==
  /\ prPc = "returned"
  /\ prRet = OkRes
  /\ Len(plan) = 2
  /\ StepEvents("download_plain", 1) # {}
  /\ StepEvents("decompress", 1) = {}
  /\ StepEvents("decompress", 2) # {}
  /\ StepEvents("download_plain", 2) = {}
  /\ Cardinality(EventsOf("execute")) = 2

\* The database the run started on has no layer with a non-null applied_block.
NoAppliedLayer == \A l \in DOMAIN db0 : ~db0[l].applied

\* What a run does only after it has a plan.
AfterPlanKinds == {"fetch_script", "check_hash"} \cup SideEffectKinds

LatestLayerError == ErrRes(<<"failed to get latest layer from DB">>)

\* C36: a run on a database without an applied layer never has a plan: it
\* fetches no restore script, checks no hash, downloads no diff and leaves
\* the database as it found it; once the manifest was fetched the run
\* returns the error of reading the latest layer.
C36_EmptyDatabaseRejected ==
  NoAppliedLayer =>
     /\ plan = <<>>
     /\ db = db0
     /\ ~haveScript
     /\ \A k \in 1..Len(events) : events[k].kind \notin AfterPlanKinds
     /\ prPc = "returned" =>
          /\ prRet.kind = "err"
          /\ EventsOf("fetch_metadata") # {} => prRet = LatestLayerError

\* An empty database and a manifest that begins at layer 0: the run
\* returned the error of reading the latest layer, without a plan.
C36_Witness ==
  /\ NoAppliedLayer
  /\ prManifest # <<>>
  /\ prManifest[1].from = 0
  /\ metaText = Render(prManifest, "plain")
  /\ prPc = "returned"
  /\ prRet = LatestLayerError
  /\ plan = <<>>
  /\ db = db0

\* A step of the loop has completed: the loop is at a later point, or the
\* run returned Ok.
SomeStepCompleted ==
  \/ prPc = "loop" /\ idx > 1
  \/ prPc = "returned" /\ prRet = OkRes

\* C37: after a restore step that completed, backup_source.db.zst does not
\* exist, also when the compressed download failed after the file was
\* created and the step went on with the uncompressed artifact.
C37_CompressedScratchGone == SomeStepCompleted => zstFile = Absent

\* The compressed download of the only step failed after the file was
\* created, the uncompressed one succeeded and the run returned Ok: the part
\* of the compressed file that was written is still there.
C37_Witness ==
  /\ prPc = "returned"
  /\ prRet = OkRes
  /\ Len(plan) = 1
  /\ StepEvents("download_plain", 1) # {}
  /\ StepEvents("execute", 1) # {}
  /\ srcFile = Absent
  /\ zstFile = Partial(plan[1])

----------------------------------------------------------------------------
\* Claims about layer_from on u32 values, checked under SpecLayerFrom.

\* A natural number below 2^33 as three limbs <<carry, high, low>>.
Wide(v) == <<0, v[1], v[2]>>

\* max(0, latest + 1 - untrusted) over the natural numbers.
MathLayerFrom(latest, untrusted) ==
  IF latest # U32Max
  THEN Wide(SaturatingSubU32(WrappingAddOne(latest), untrusted))
  ELSE IF untrusted = U32Zero THEN <<1, 0, 0>>
  ELSE Wide(WrappingAddOne(U32Sub(U32Max, untrusted)))

\* C15: for every latest_layer and untrusted_layers in the u32 range the
\* computed layer_from is max(0, latest_layer + 1 - untrusted_layers).
C15_LayerFrom ==
  lfPc = "done" =>
     /\ ~lfResult.panic
     /\ Wide(lfResult.val) = MathLayerFrom(lfLatest, lfUntrusted)

\* latest_layer = u32::MAX in a build that wraps: layer_from is 0 whatever
\* untrusted_layers is.
C15_Witness ==
  /\ lfPc = "done"
  /\ lfLatest = U32Max
  /\ lfUntrusted = <<0, 10>>
  /\ ~lfChecked
  /\ lfResult = U32Value(U32Zero)

\* C35: the u32 arithmetic of layer_from never wraps or overflows: for every
\* latest_layer the database can return, latest_layer + 1 neither panics nor
\* wraps, so the sum is greater than latest_layer.
C35_NoWrapNoOverflow ==
  lfPc = "done" =>
     LET next == AddOne(lfLatest, lfChecked)
     IN  /\ ~lfResult.panic
         /\ ~next.panic
         /\ U32Less(lfLatest, next.val)

\* latest_layer = u32::MAX in a build with overflow checks: the addition
\* panics and no layer_from is computed.
C35_Witness ==
  /\ lfPc = "done"
  /\ lfLatest = U32Max
  /\ lfChecked
  /\ lfResult = U32Panic

----------------------------------------------------------------------------
\* Claims about re-invoking partial_restore, checked under SpecReentry.

\* What one uninterrupted run that meets no failure plans from the database
\* the first invocation found.
Plan0 ==
  FindRestorePoints(LayerFrom(GetLatestFromDb(db0).val, prUntrusted),
                    Render(prManifest, "plain"), prJumpBack).points

\* One uninterrupted run from that database returns Ok when nothing fails
\* around it: there is a latest layer, the plan is not empty and the chain
\* check of its first point finds its row.
UninterruptedOk ==
  /\ GetLatestFromDb(db0).ok
  /\ Plan0 # <<>>
  /\ Plan0[1].from = 0 \/ (Plan0[1].from - 1) \in DOMAIN db0

RECURSIVE ApplyAll(_, _)
ApplyAll(table, points) ==
  IF points = <<>> THEN table
  ELSE ApplyAll(Merge(table, DiffRows(Head(points))), Tail(points))

\* The errors a run returns because of what it finds in the database, not
\* because a request, a file operation or the script failed.
StateErrors ==
  {"failed to get latest layer from DB", TooOld,
   "failed to get previous hash for layer", "unexpected hash"}

\* C12, as the claim states it: when one uninterrupted run would succeed, a run
\* re-invoked after a killed or failed one returns none of the errors that
\* come from the state of the database, and when it returns Ok the database is
\* the one the uninterrupted run leaves.
C12_Reentrant ==
  (runs >= 2 /\ UninterruptedOk /\ prPc = "returned") =>
     /\ prRet.kind = "err" => prRet.msg[1] \notin StateErrors
     /\ prRet = OkRes => db = ApplyAll(db0, Plan0)

\* The first run was killed after the script of its last step ran; the run
\* re-invoked with untrusted_layers = 0 and jump_back = 0 finds nothing to
\* plan and returns the error.
C12_Witness ==
  /\ runs = 2
  /\ UninterruptedOk
  /\ prUntrusted = 0
  /\ prJumpBack = 0
  /\ prPc = "returned"
  /\ prRet = ErrRes(<<TooOld>>)
  /\ db = ApplyAll(db0, Plan0)

-----------------------------------------------------------------------------
\* Claims about the Download command.

\* The steps of the run, by what they did.
StepsOf(op, verdict) ==
  {k \in 1..Len(steps) : steps[k].op = op /\ steps[k].verdict = verdict}

Installed == StepsOf("install", "ok") # {}

BothPassed ==
  /\ StepsOf("verify_archive", "equal") # {}
  /\ StepsOf("verify_db", "equal") # {}

\* The run found state.zst without state.url: it downloaded nothing and
\* skipped both verifications.
BothSkipped ==
  /\ StepsOf("verify_archive", "skipped") # {}
  /\ StepsOf("verify_db", "skipped") # {}
  /\ \A k \in 1..Len(steps) : steps[k].op # "download"

\* C18 as stated: every run that renamed state_downloaded.sql to state.sql
\* compared the digest of the archive and the digest of the unpacked database
\* with the published ones and found both equal.
C18_Original == Installed => BothPassed

\* C18: a run that renamed state_downloaded.sql to state.sql either found
\* both digests equal to the published ones, or found state.zst without the
\* pin file state.url, downloaded nothing and skipped both verifications; no
\* verification of the run found a difference or failed.
C18_VerifiedBeforeInstall ==
  Installed =>
    /\ BothPassed \/ BothSkipped
    /\ \A k \in 1..Len(steps) :
         /\ steps[k].verdict \notin {"differ", "error"}
         /\ steps[k].verdict = "equal" => steps[k].actual = steps[k].expected

C18_Witness ==
  /\ Installed
  /\ BothPassed
  /\ StepsOf("download", "ok") # {}
  /\ finalFile = File("genuine_sql")

\* The verifications of the run that found the digests different.
Differing == {k \in 1..Len(steps) : steps[k].verdict = "differ"}

\* After the chain check k found a mismatch the Partial command did nothing
\* more and returned an error.
RestoreStopsAt(k) ==
  /\ k = Len(events)
  /\ prPc = "returned"
  /\ prRet.kind = "err"

\* C19 as stated: after a checksum mismatch the Download command performs no
\* further step and exits with 7 (archive) or 4 (database); after a hash-chain
\* mismatch partial_restore performs no further request or database operation.
C19_Original ==
  /\ \A k \in Differing :
       /\ k = Len(steps)
       /\ cmdPc = "exited"
       /\ exitCode = Exit(MismatchExit(steps[k].op))
  /\ \A k \in 1..Len(events) : Mismatched(k) => RestoreStopsAt(k)

\* The files the Download command deletes after a mismatch are gone.
Deleted(op) ==
  IF op = "verify_archive" THEN archiveFile = Absent
  ELSE unpackedFile = Absent /\ archiveFile = Absent /\ redirectFile = Absent

\* C19: after a checksum mismatch the Download command performs no further
\* download, unpack or install step and exits: with 7 (archive) or 4
\* (database) when it deleted the files it deletes then, and with 1, the
\* code of an error returned by main, when a deletion failed; after a
\* hash-chain mismatch partial_restore performs no further request or
\* database operation and returns an error.
C19_NoRetry ==
  /\ \A k \in Differing :
       /\ k = Len(steps)
       /\ cmdPc = "exited"
       /\ \/ exitCode = Exit(MismatchExit(steps[k].op)) /\ Deleted(steps[k].op)
          \/ exitCode = Exit(ExitError) /\ ~Deleted(steps[k].op)
       /\ exitCode # Exit(UnverifiableExit(steps[k].op))
  /\ \A k \in 1..Len(events) : Mismatched(k) => RestoreStopsAt(k)

\* The run downloaded an archive whose digest is not the published one,
\* deleted it and exited with 7.
C19_Witness ==
  /\ StepsOf("download", "ok") # {}
  /\ Differing # {}
  /\ steps[Len(steps)].op = "verify_archive"
  /\ steps[Len(steps)].actual = LowerHex(Md5("corrupt_zst"))
  /\ exitCode = Exit(ExitArchiveMismatch)
  /\ archiveFile = Absent
  /\ redirectFile # Absent

\* The verifications of the run that got both digests.
Compared ==
  {k \in 1..Len(steps) : steps[k].verdict \in {"equal", "differ"}}

\* Two digests that are the same hex number, whatever the case of the letters.
DigestsEqualIgnoringCase(actual, expected) ==
  /\ Len(actual) = Len(expected)
  /\ \A i \in 1..Len(actual) : UpperOf(actual[i]) = UpperOf(expected[i])

\* C20: a verification that got both digests found them equal exactly when
\* they are equal as hex numbers, whatever the case of the letters: a
\* published digest that differs from the computed one only in letter case
\* verifies.
C20_CaseInsensitive ==
  \A k \in Compared :
    (steps[k].verdict = "equal") <=>
      DigestsEqualIgnoringCase(steps[k].actual, steps[k].expected)

C20_Witness ==
  \E k \in Compared :
    /\ steps[k].op = "verify_archive"
    /\ steps[k].actual = LowerHex(Md5("genuine_zst"))
    /\ steps[k].expected = UpperHex(Md5("genuine_zst"))
    /\ steps[k].verdict = "differ"
    /\ exitCode = Exit(ExitArchiveMismatch)
    /\ archiveFile = Absent

\* The verifications the run carried out.
Verifications ==
  {k \in 1..Len(steps) :
     /\ steps[k].op \in {"verify_archive", "verify_db"}
     /\ steps[k].verdict # "skipped"}

\* The URL verification k asks the digest at, derived from the pinned URL.
LinkOf(k) ==
  IF steps[k].op = "verify_archive" THEN GetLinkToArchiveMd5(steps[k].pinned)
  ELSE GetLinkToDbMd5(steps[k].pinned)

\* The failures of verification k: reading the pin file, parsing the URL it
\* holds, fetching the digest, reading the local file.
ReadOrFetchFailed(k) ==
  \/ steps[k].fault \in {"pin unreadable", "file unreadable"}
  \/ ~UrlParses(steps[k].pinned)
  \/ /\ LinkOf(k).kind = "ok"
     /\ \/ steps[k].fault = "no answer"
        \/ ~IsSuccess(Serve(LinkOf(k).url).status)

\* The pinned URL parses but no digest URL derives from it.
NoDigestLink(k) ==
  /\ UrlParses(steps[k].pinned)
  /\ LinkOf(k).kind = "err"

\* C21 as stated: a verification returns an error only when reading the pin
\* file, parsing the URL, fetching the digest or reading the local file
\* fails, and Ok(false) when both digests were obtained and differ.
C21_Original ==
  \A k \in Verifications :
    /\ steps[k].verdict = "error" <=> ReadOrFetchFailed(k)
    /\ steps[k].verdict # "error" =>
         (steps[k].verdict = "differ" <=> steps[k].actual # steps[k].expected)

\* C21: a verification whose two digests were obtained and differ returns
\* Ok(false), never an error; it returns an error exactly when reading the
\* pin file, parsing the URL, fetching the digest or reading the local file
\* fails, or when the pinned URL has no digest URL, which is the case for
\* verify_db when the URL ends with neither .sql.zip nor .sql.zst.
C21_MismatchIsNotAnError ==
  \A k \in Verifications :
    /\ steps[k].verdict = "error" <=> (ReadOrFetchFailed(k) \/ NoDigestLink(k))
    /\ steps[k].verdict # "error" =>
         (steps[k].verdict = "differ" <=> steps[k].actual # steps[k].expected)

\* The server publishes the digest of another snapshot for the database: the
\* verification returned Ok(false) and the run exited with 4.
C21_Witness ==
  /\ Len(steps) >= 1
  /\ steps[Len(steps)].op = "verify_db"
  /\ steps[Len(steps)].verdict = "differ"
  /\ steps[Len(steps)].fault = "none"
  /\ steps[Len(steps)].actual = LowerHex(Md5("genuine_sql"))
  /\ steps[Len(steps)].expected = LowerHex(Md5("another snapshot"))
  /\ exitCode = Exit(ExitDbMismatch)

\* The failed extractions of the run.
FailedUnpacks == StepsOf("unpack", "failed")

\* C25: after an extraction that failed, the command has exited with code 2 when
\* the error carried OS error 28 and with code 3 on any other error, the
\* output file state_downloaded.sql is gone, the archive is still there, and
\* the extraction was attempted once.
C25_DiskFullDistinguished ==
  \A k \in FailedUnpacks :
    /\ cmdPc = "exited"
    /\ exitCode = Exit(IF steps[k].fault = NoSpace THEN ExitNoSpace
                       ELSE ExitUnpackFailed)
    /\ unpackedFile = Absent
    /\ archiveFile # Absent
    /\ Cardinality(StepsOf("unpack", "ok") \cup FailedUnpacks) = 1

\* The extraction ran out of space before state_downloaded.sql existed: there
\* was nothing to remove and the command exited with code 1.
C25_Witness ==
  /\ \E k \in FailedUnpacks : steps[k].fault = NoSpace
  /\ cmdPc = "exited"
  /\ exitCode = Exit(ExitError)
  /\ unpackedFile = Absent
  /\ archiveFile # Absent

\* The download steps of the run: download_with_retries was called and
\* returned Ok or Err, or main returned before calling it.
Downloads(verdict) == StepsOf("download", verdict)

\* C31: a run that found state.zst made no download and left state.download
\* alone; state.zst exists only as the run found it or after a download that
\* returned Ok and the rename of state.download, which is then gone; after a
\* download that returned Err the run has exited with state.download holding
\* what was received and no state.zst; a run that could not start the download
\* created no state.zst either.
C31_ArchiveOnlyFromCompleteDownload ==
  /\ cmdStart.archive # Absent =>
       /\ Downloads("ok") \cup Downloads("failed") \cup Downloads("not started") = {}
       /\ tempFile = cmdStart.temp
       /\ archiveFile \in {cmdStart.archive, Absent}
  /\ (cmdStart.archive = Absent /\ archiveFile # Absent) =>
       /\ Downloads("ok") # {}
       /\ Downloads("failed") = {}
       /\ tempFile = Absent
  /\ Downloads("failed") # {} =>
       /\ cmdPc = "exited"
       /\ exitCode = Exit(ExitError)
       /\ archiveFile = Absent
       /\ tempFile = File("partial_zst")
  /\ Downloads("not started") # {} =>
       /\ cmdPc = "exited"
       /\ archiveFile = Absent
       /\ tempFile = cmdStart.temp

\* The run found neither state.zst nor state.download; the download returned
\* Err: state.download holds the bytes received and there is no state.zst.
C31_Witness ==
  /\ cmdStart.archive = Absent
  /\ cmdStart.temp = Absent
  /\ Downloads("failed") # {}
  /\ tempFile = File("partial_zst")
  /\ archiveFile = Absent
  /\ exitCode = Exit(ExitError)

\* The installed database, its write-ahead log and the backups are the ones
\* the run found.
DataUntouched ==
  /\ finalFile = cmdStart.final
  /\ walFile = cmdStart.wal
  /\ backups = cmdStart.backups

\* A verification that could not be carried out deleted nothing: the files it
\* worked on are all there.
NothingDeleted(op) ==
  /\ archiveFile # Absent
  /\ redirectFile # Absent
  /\ IF op = "verify_db" THEN unpackedFile # Absent
     ELSE unpackedFile = cmdStart.unpacked
  /\ DataUntouched

\* Full success: state.sql was installed and the archive and the pin file
\* were deleted after that.
CleanAfterSuccess ==
  exitCode = Exit(ExitOk) =>
    /\ Installed
    /\ StepsOf("cleanup", "ok") # {}
    /\ \A i \in StepsOf("install", "ok"), c \in StepsOf("cleanup", "ok") : i < c
    /\ finalFile # Absent
    /\ archiveFile = Absent
    /\ redirectFile = Absent

\* C32 as stated: after an archive mismatch the archive is deleted and the pin
\* file kept; after a database mismatch the unpacked file, the archive and the
\* pin file are deleted; after full success the archive and the pin file are
\* deleted; after a verification error no file is deleted.
C32_Original ==
  /\ StepsOf("verify_archive", "differ") # {} =>
       /\ archiveFile = Absent
       /\ redirectFile # Absent
       /\ unpackedFile = cmdStart.unpacked
       /\ DataUntouched
  /\ StepsOf("verify_db", "differ") # {} =>
       /\ unpackedFile = Absent
       /\ archiveFile = Absent
       /\ redirectFile = Absent
       /\ DataUntouched
  /\ CleanAfterSuccess
  /\ \A op \in {"verify_archive", "verify_db"} :
       StepsOf(op, "error") # {} => NothingDeleted(op)

\* C32: the same cleanup, with the exit code telling whether it was carried
\* out: exit 7 means the archive alone was deleted and the pin file kept, exit
\* 4 means the unpacked file, the archive and the pin file were deleted; when
\* a removal fails after a mismatch the run exits with 1 and the files from
\* the failing one on remain, the pin file among them; after full success the
\* archive and the pin file are gone and state.sql is installed; a
\* verification error (exit 8 or 5) deletes nothing.
C32_CleanupByOutcome ==
  /\ StepsOf("verify_archive", "differ") # {} =>
       /\ \/ exitCode = Exit(ExitArchiveMismatch) /\ archiveFile = Absent
          \/ exitCode = Exit(ExitError) /\ archiveFile # Absent
       /\ redirectFile # Absent
       /\ unpackedFile = cmdStart.unpacked
       /\ DataUntouched
  /\ StepsOf("verify_db", "differ") # {} =>
       /\ \/ /\ exitCode = Exit(ExitDbMismatch)
             /\ unpackedFile = Absent
             /\ archiveFile = Absent
             /\ redirectFile = Absent
          \/ /\ exitCode = Exit(ExitError)
             /\ redirectFile # Absent
             /\ archiveFile = Absent => unpackedFile = Absent
       /\ DataUntouched
  /\ exitCode = Exit(ExitArchiveMismatch) =>
       StepsOf("verify_archive", "differ") # {}
  /\ exitCode = Exit(ExitDbMismatch) => StepsOf("verify_db", "differ") # {}
  /\ CleanAfterSuccess
  /\ \A op \in {"verify_archive", "verify_db"} :
       /\ StepsOf(op, "error") # {} =>
            /\ exitCode = Exit(UnverifiableExit(op))
            /\ NothingDeleted(op)
       /\ exitCode = Exit(UnverifiableExit(op)) => StepsOf(op, "error") # {}

\* The unpacked database did not have the published digest: the unpacked
\* file, the archive and the pin file were deleted and the run exited with 4.
C32_Witness ==
  /\ StepsOf("verify_db", "differ") # {}
  /\ exitCode = Exit(ExitDbMismatch)
  /\ unpackedFile = Absent
  /\ archiveFile = Absent
  /\ redirectFile = Absent

\* The backup names that were free when the run started.
FreeAtStart == {i \in 1..Len(cmdStart.backups) : cmdStart.backups[i] = Absent}

\* The file the run found is now the backup named i, and that name was free
\* when the run started.
MovedTo(file, i) ==
  /\ i \in FreeAtStart
  /\ backups[i] = file

\* Name i was the first free one once the names in taken were in use as well.
FirstFreeAfter(i, taken) ==
  \A j \in 1..(i - 1) : j \notin (FreeAtStart \ taken)

\* C33: every backup the run found is where it was; until the backups are
\* made state.sql and state.sql-wal are as found; once they are made an
\* existing state.sql is the backup of the first name that was free, an
\* existing state.sql-wal the backup of the first name free after that, a
\* different one; state.sql is installed only after that.
C33_InstallKeepsExistingData ==
  /\ \A i \in 1..Len(cmdStart.backups) :
       i \notin FreeAtStart => backups[i] = cmdStart.backups[i]
  /\ StepsOf("backup", "ok") \cup StepsOf("backup", "failed") = {} =>
       /\ finalFile = cmdStart.final
       /\ walFile = cmdStart.wal
       /\ backups = cmdStart.backups
  /\ StepsOf("backup", "ok") # {} =>
       LET sqlAt == {i \in FreeAtStart :
                       cmdStart.final # Absent /\ backups[i] = cmdStart.final}
           walAt == {i \in FreeAtStart :
                       cmdStart.wal # Absent /\ backups[i] = cmdStart.wal}
       IN
       /\ cmdStart.final # Absent =>
            /\ Cardinality(sqlAt) = 1
            /\ \A i \in sqlAt : FirstFreeAfter(i, {})
       /\ cmdStart.wal # Absent =>
            /\ Cardinality(walAt) = 1
            /\ \A i \in walAt : FirstFreeAfter(i, sqlAt)
            /\ walAt \cap sqlAt = {}
       /\ walFile = Absent
  /\ StepsOf("backup", "failed") # {} =>
       /\ exitCode = Exit(ExitBackupFailed)
       /\ \/ finalFile = cmdStart.final
          \/ \E i \in 1..Len(backups) : MovedTo(cmdStart.final, i)
       /\ walFile = cmdStart.wal
  /\ Installed =>
       /\ StepsOf("backup", "ok") # {}
       /\ \A b \in StepsOf("backup", "ok"), i \in StepsOf("install", "ok") :
            b < i
  /\ ~Installed => finalFile \in {cmdStart.final, Absent}

\* The run found state.sql, state.sql-wal and a backup named state.sql.bak.1
\* but none named state.sql.bak: state.sql became state.sql.bak, the log
\* state.sql.bak.2, the old backup is untouched and the new database is
\* installed.
C33_Witness ==
  /\ Installed
  /\ cmdStart.final = File("old_sql")
  /\ cmdStart.wal = File("old_wal")
  /\ cmdStart.backups = <<Absent, File("older_sql"), Absent>>
  /\ backups = <<File("old_sql"), File("older_sql"), File("old_wal")>>
  /\ finalFile \notin {Absent, File("old_sql")}

-----------------------------------------------------------------------------
\* Claims about download_checksum, checked under SpecChecksum.

\* The verifications that got the digest from the server, and the body of
\* the response they got it from.
Fetched == {k \in Verifications : steps[k].verdict # "error"}
BodyOf(k) == Serve(LinkOf(k).url).body

----------------------------------------------------------------------------
\* Claims about partial_restore while the server publishes anew, checked under
\* SpecPublish.

ManifestFetches == EventsOf("fetch_metadata")
ScriptFetches == EventsOf("fetch_script")
DiffDownloads == EventsOf("download_zst") \cup EventsOf("download_plain")

\* C26: in a run the manifest is fetched at most once and the restore script
\* at most once; every diff download and every execution of the script comes
\* after both fetches; the plan is the one computed from the manifest the
\* server published when it was fetched, every scratch file is the artifact of
\* a point of that plan, and every execution runs the script the server
\* published when it was fetched, whatever the server has published since.
C26_FetchedOnceUpFront ==
  /\ Cardinality(ManifestFetches) <= 1
  /\ Cardinality(ScriptFetches) <= 1
  /\ \A k \in DiffDownloads \cup EventsOf("execute") :
       /\ \E i \in ManifestFetches : i < k
       /\ \E j \in ScriptFetches : j < k
  /\ \A k \in EventsOf("execute"), j \in ScriptFetches :
       events[k].script = events[j].published.script
  /\ plan # <<>> =>
       \A i \in ManifestFetches :
         /\ \E layout \in Layouts :
              metaText = Render(events[i].published.manifest, layout)
         /\ plan = FindRestorePoints(LayerFrom(GetLatestFromDb(db0).val, prUntrusted),
                                     metaText, prJumpBack).points
  /\ \A f \in {zstFile, srcFile} :
       f # Absent => \E n \in 1..Len(plan) : f.of = plan[n]

\* A run of two steps returned Ok; the server replaced the manifest and the
\* script after the run had fetched them and before its first download.
C26_Witness ==
  /\ prPc = "returned"
  /\ prRet = OkRes
  /\ Len(plan) = 2
  /\ Cardinality(EventsOf("execute")) = 2
  /\ pubScript # FirstScript
  /\ \A j \in ScriptFetches : events[j].published.script = FirstScript
  /\ \A i \in ManifestFetches : events[i].published.manifest # prManifest
  /\ \A k \in EventsOf("execute") : events[k].script = FirstScript

====
